---- MODULE Spec2Model ----
(***************************************************************************)
(* Verification model of the vibe-flow point-of-sale client and edge       *)
(* functions.  The module holds several independent state machines, one    *)
(* per subsystem, each with its own specification:                         *)
(*   SpecDomain  - DomainManager tenant resolution (cache, de-duplication) *)
(*   SpecRoute   - ProtectedRoute and the UnifiedRouter route table         *)
(*   SpecClient  - pure helpers: hasRouteAccess, canDelete                 *)
(*   SpecEdge    - edge-function wrappers and tenant provisioning          *)
(***************************************************************************)
EXTENDS Integers, Sequences, FiniteSets, TLC

Null == "null"

(***************************************************************************)
(* State                                                                   *)
(***************************************************************************)

\* Part A: DomainManager
VARIABLES
  hostname,    \* window.location.hostname of the page
  now,         \* Date.now() in ms
  cache,       \* DomainManager.cache: host -> NoEntry or [tenantId, timestamp]
  resolving,   \* DomainManager.resolving: set of hosts
  calls,       \* the asynchronous calls of getCurrentDomainConfig / resolveTenantFromDomain
  timedOut     \* history: some call used up its polling rounds with the resolution still in progress

\* Part B: routing
VARIABLES
  authLoading,  \* useAuth().loading
  user,         \* useAuth().user is set
  userRole,     \* useAuth().userRole, Null while the profile is not loaded
  pathname,     \* window.location.pathname
  visited       \* history: the pathnames the current redirect chain has left

\* Part C: calls of the client's pure helpers
VARIABLES
  clientCall    \* the last call made: its operation, arguments and result

\* Part D: edge functions, AuthService.signup and the database
VARIABLES
  activePlans,  \* billing_plans rows with is_active = true
  authUsers,    \* auth.users rows
  tenants,      \* tenants rows
  profiles,     \* profiles rows, by user_id
  reqs          \* the requests being served: position, inputs kept, response

\* Part E: React Query fetches under the retry policy of App.tsx
VARIABLES
  fetches       \* the queries and mutations: position, failureCount, last error

\* Part F: calls of NavigationService
VARIABLES
  navCall       \* the last call made: its operation, arguments and results

\* Part G: a mounted UnifiedRouter
VARIABLES
  router        \* the router's variant, what its hooks give it, its state
                \* and the validateSubdomainAccess calls it has in flight

\* Part H: the consumers of useDomainContext
VARIABLES
  hookImpl,       \* which useDomainContext the consumers call
  hasGetInstance, \* whether domainManager.getInstance exists in the build
  globals,        \* globalDomainConfig, globalLoading, globalInitialized, globalPromise
  inits,          \* per consumer: the initializeDomain run its effect started
  consumers       \* per consumer: the hook's state and its refreshConfig call

\* Part I: the LoggingService buffer
VARIABLES
  logs,         \* this.logs: the buffered entries, oldest first
  logged,       \* how many entries log() has been given
  batches,      \* per flushLogs call in flight: the batch it took
  flushed,      \* the entries a batch insert has stored in system_logs
  dropped       \* the entries log() cut off the front at maxLogs

\* Part J: a render pass of the Index or LandingPage page
VARIABLES
  page          \* the page at the root, what useAuth gives, the component the
                \* pass is at, and how many Index elements Index has returned

domainVars == <<hostname, now, cache, resolving, calls, timedOut>>
routeVars == <<authLoading, user, userRole, pathname, visited>>
clientVars == <<clientCall>>
edgeVars == <<activePlans, authUsers, tenants, profiles, reqs>>
retryVars == <<fetches>>
navVars == <<navCall>>
routerVars == <<router>>
hookVars == <<hookImpl, hasGetInstance, globals, inits, consumers>>
logVars == <<logs, logged, batches, flushed, dropped>>
pageVars == <<page>>

vars == <<domainVars, routeVars, clientVars, edgeVars, retryVars, navVars, routerVars, hookVars, logVars, pageVars>>

\* what a step of one part leaves alone
outsideDomain == <<routeVars, clientVars, edgeVars, retryVars, navVars, routerVars, hookVars, logVars, pageVars>>
outsideRoute == <<domainVars, clientVars, edgeVars, retryVars, navVars, routerVars, hookVars, logVars, pageVars>>
outsideClient == <<domainVars, routeVars, edgeVars, retryVars, navVars, routerVars, hookVars, logVars, pageVars>>
outsideEdge == <<domainVars, routeVars, clientVars, retryVars, navVars, routerVars, hookVars, logVars, pageVars>>
outsideRetry == <<domainVars, routeVars, clientVars, edgeVars, navVars, routerVars, hookVars, logVars, pageVars>>
outsideNav == <<domainVars, routeVars, clientVars, edgeVars, retryVars, routerVars, hookVars, logVars, pageVars>>
outsideRouter == <<domainVars, routeVars, clientVars, edgeVars, retryVars, navVars, hookVars, logVars, pageVars>>
outsideHook == <<domainVars, routeVars, clientVars, edgeVars, retryVars, navVars, routerVars, logVars, pageVars>>
outsideLog == <<domainVars, routeVars, clientVars, edgeVars, retryVars, navVars, routerVars, hookVars, pageVars>>
outsidePage == <<domainVars, routeVars, clientVars, edgeVars, retryVars, navVars, routerVars, hookVars, logVars>>

(***************************************************************************)
(* Part A.  DomainManager (lib/domain-manager)                             *)
(***************************************************************************)

\* ---- bounds of part A ----
MaxCalls == 2
TickMs == 100000
MaxNow == 300000

\* ---- program constants ----
CACHE_TIMEOUT == 5 * 60 * 1000
MaxWaitAttempts == 50

CallIds == 1..MaxCalls
TenantIds == {"t1", "t2"}

\* Hostnames are sequences of DNS labels, so that endsWith is computed.
Hosts ==
  { <<"localhost">>,
    <<"www", "vibenet", "shop">>,
    <<"acme", "vibenet", "shop">>,
    <<"shop", "example", "com">> }

\* domain.endsWith('.' + suffix): the suffix labels preceded by at least one label
EndsWithDot(domain, suffix) ==
  /\ Len(domain) > Len(suffix)
  /\ SubSeq(domain, Len(domain) - Len(suffix) + 1, Len(domain)) = suffix

IsDevOrMainDomain(domain) ==
  \/ domain = <<"localhost">>
  \/ EndsWithDot(domain, <<"lovableproject", "com">>)
  \/ domain = <<"vibenet", "shop">>
  \/ domain = <<"www", "vibenet", "shop">>

parseDomain(domain) ==
  IF domain = <<"localhost">> \/ EndsWithDot(domain, <<"lovableproject", "com">>)
  THEN [tenantId |-> Null, domain |-> domain, isCustomDomain |-> FALSE, isSubdomain |-> FALSE]
  ELSE IF domain = <<"vibenet", "shop">> \/ domain = <<"www", "vibenet", "shop">>
  THEN [tenantId |-> Null, domain |-> domain, isCustomDomain |-> FALSE, isSubdomain |-> FALSE]
  ELSE IF EndsWithDot(domain, <<"vibenet", "shop">>)
  THEN [tenantId |-> Null, domain |-> domain, isCustomDomain |-> FALSE, isSubdomain |-> TRUE]
  ELSE [tenantId |-> Null, domain |-> domain, isCustomDomain |-> TRUE, isSubdomain |-> FALSE]

\* cache.get(host) === undefined
NoEntry == [tenantId |-> Null, timestamp |-> 0 - 1]

IdleCall ==
  [kind |-> "none", pc |-> "idle", host |-> <<>>, attempts |-> 0,
   via |-> "none", tenantId |-> Null]

\* a finished call keeps its kind, its host and its answer
DoneCall(kind, d, via, tenantId) ==
  [IdleCall EXCEPT !.kind = kind, !.host = d, !.pc = "done", !.via = via,
                   !.tenantId = tenantId]

CacheFresh_Inclusive(entry, t) ==
  /\ entry # NoEntry
  /\ t - entry.timestamp <= CACHE_TIMEOUT

\* cached && Date.now() - cached.timestamp < this.CACHE_TIMEOUT
CacheFresh(entry, t) ==
  /\ entry # NoEntry
  /\ t - entry.timestamp < CACHE_TIMEOUT


\* The outcomes of supabase.rpc('get_tenant_by_domain'): an error result, a
\* rejected promise, or data holding a tenant id or null.
RpcOutcomes == {"error", "throw", Null} \cup TenantIds

\* getCurrentDomainConfig up to its first await
GetCurrentDomainConfig(c) ==
  /\ calls[c].pc = "idle"
  /\ LET d == hostname
         base == [IdleCall EXCEPT !.kind = "config", !.host = d]
     IN IF CacheFresh(cache[d], now)
        THEN /\ calls' = [calls EXCEPT ![c] =
                  DoneCall("config", d, "cache", cache[d].tenantId)]
             /\ UNCHANGED resolving
        ELSE IF IsDevOrMainDomain(d)
        THEN /\ calls' = [calls EXCEPT ![c] =
                  DoneCall("config", d, "static", parseDomain(d).tenantId)]
             /\ UNCHANGED resolving
        ELSE IF d \in resolving
        THEN /\ calls' = [calls EXCEPT ![c] = [base EXCEPT !.pc = "wait"]]
             /\ UNCHANGED resolving
        ELSE /\ calls' = [calls EXCEPT ![c] = [base EXCEPT !.pc = "rpc"]]
             /\ resolving' = resolving \cup {d}
  /\ UNCHANGED <<hostname, now, cache, timedOut>>
  /\ UNCHANGED outsideDomain

WaitContinues_ShortLoop(d, attempts, res) ==
  d \in res /\ attempts < 1

WaitContinues_OneMoreRound(d, attempts, res) ==
  d \in res /\ attempts <= MaxWaitAttempts

\* the loop condition of the wait loop, evaluated after attempts++
WaitContinues(d, attempts, res) ==
  d \in res /\ attempts < MaxWaitAttempts

\* One round of the wait loop: the 100 ms timer fires, attempts++, the loop
\* condition is re-evaluated and, when the loop ends, the cache is checked
\* again and the lookup started.
PollRound(c) ==
  /\ calls[c].pc = "wait"
  /\ LET d == calls[c].host
         n == calls[c].attempts + 1
     IN IF WaitContinues(d, n, resolving)
        THEN /\ calls' = [calls EXCEPT ![c].attempts = n]
             /\ UNCHANGED <<resolving, timedOut>>
        ELSE /\ timedOut' = (timedOut \/ (d \in resolving /\ n >= MaxWaitAttempts))
             /\ IF CacheFresh(cache[d], now)
                THEN /\ calls' = [calls EXCEPT ![c] =
                          DoneCall("config", d, "cache", cache[d].tenantId)]
                     /\ UNCHANGED resolving
                ELSE /\ calls' = [calls EXCEPT ![c].attempts = 0, ![c].pc = "rpc"]
                     /\ resolving' = resolving \cup {d}
  /\ UNCHANGED <<hostname, now, cache>>
  /\ UNCHANGED outsideDomain

\* The rpc of getCurrentDomainConfig returns
ConfigRpcReturn(c, out) ==
  /\ calls[c].pc = "rpc"
  /\ calls[c].kind = "config"
  /\ LET d == calls[c].host
     IN /\ resolving' = resolving \ {d}
        /\ IF out \in {"error", "throw"}
           THEN /\ calls' = [calls EXCEPT ![c] = DoneCall("config", d, "error", Null)]
                /\ UNCHANGED cache
           ELSE /\ calls' = [calls EXCEPT ![c] = DoneCall("config", d, "rpc", out)]
                /\ cache' = IF out # Null
                            THEN [cache EXCEPT ![d] = [tenantId |-> out, timestamp |-> now]]
                            ELSE cache
  /\ UNCHANGED <<hostname, now, timedOut>>
  /\ UNCHANGED outsideDomain

\* resolveTenantFromDomain up to its await
ResolveTenantFromDomain(c, d) ==
  /\ calls[c].pc = "idle"
  /\ LET base == [IdleCall EXCEPT !.kind = "resolve", !.host = d]
     IN IF CacheFresh(cache[d], now)
        THEN calls' = [calls EXCEPT ![c] =
               DoneCall("resolve", d, "cache", cache[d].tenantId)]
        ELSE calls' = [calls EXCEPT ![c] = [base EXCEPT !.pc = "rpc"]]
  /\ UNCHANGED <<hostname, now, cache, resolving, timedOut>>
  /\ UNCHANGED outsideDomain

ResolveRpcReturn_CachesNull(c, out) ==
  /\ calls[c].pc = "rpc"
  /\ calls[c].kind = "resolve"
  /\ LET d == calls[c].host
     IN IF out \in {"error", "throw"}
        THEN /\ calls' = [calls EXCEPT ![c] = DoneCall("resolve", d, "error", Null)]
             /\ UNCHANGED cache
        ELSE /\ calls' = [calls EXCEPT ![c] = DoneCall("resolve", d, "rpc", out)]
             /\ cache' = [cache EXCEPT ![d] = [tenantId |-> out, timestamp |-> now]]
  /\ UNCHANGED <<hostname, now, resolving, timedOut>>
  /\ UNCHANGED outsideDomain

\* The rpc of resolveTenantFromDomain returns
ResolveRpcReturn(c, out) ==
  /\ calls[c].pc = "rpc"
  /\ calls[c].kind = "resolve"
  /\ LET d == calls[c].host
     IN IF out \in {"error", "throw"}
        THEN /\ calls' = [calls EXCEPT ![c] = DoneCall("resolve", d, "error", Null)]
             /\ UNCHANGED cache
        ELSE /\ calls' = [calls EXCEPT ![c] = DoneCall("resolve", d, "rpc", out)]
             /\ cache' = IF out # Null
                         THEN [cache EXCEPT ![d] = [tenantId |-> out, timestamp |-> now]]
                         ELSE cache
  /\ UNCHANGED <<hostname, now, resolving, timedOut>>
  /\ UNCHANGED outsideDomain

\* clearCache(domain?); an absent (or empty) domain is <<>>
ClearCache(d) ==
  /\ \E h \in Hosts : cache[h] # NoEntry
  /\ cache' = IF d # <<>> THEN [cache EXCEPT ![d] = NoEntry]
                          ELSE [h \in Hosts |-> NoEntry]
  /\ UNCHANGED <<hostname, now, resolving, calls, timedOut>>
  /\ UNCHANGED outsideDomain

\* Time passes
Tick ==
  /\ now + TickMs <= MaxNow
  /\ now' = now + TickMs
  /\ UNCHANGED <<hostname, cache, resolving, calls, timedOut>>
  /\ UNCHANGED outsideDomain

NextDomain ==
  \/ \E c \in CallIds : GetCurrentDomainConfig(c)
  \/ \E c \in CallIds : PollRound(c)
  \/ \E c \in CallIds : \E out \in RpcOutcomes : ConfigRpcReturn(c, out)
  \/ \E c \in CallIds : \E d \in Hosts : ResolveTenantFromDomain(c, d)
  \/ \E c \in CallIds : \E out \in RpcOutcomes : ResolveRpcReturn(c, out)
  \/ \E d \in Hosts \cup {<<>>} : ClearCache(d)
  \/ Tick


(***************************************************************************)
(* Part B.  Client-side routing: ProtectedRoute and the UnifiedRouter      *)
(* route table                                                             *)
(***************************************************************************)

Roles == {"superadmin", "admin", "manager", "cashier", "user"}

\* A pathname is the sequence of its segments: "/" is <<>>, "/auth/callback"
\* is <<"auth", "callback">>.
PublicPaths ==
  { <<>>, <<"demo">>, <<"auth">>, <<"auth", "callback">>, <<"signup">>,
    <<"invite">>, <<"reset-password">>, <<"verify-email">>,
    <<"forgot-password">>, <<"success">>, <<"privacy-policy">>,
    <<"terms-of-service">> }

SuperAdminPages == { <<>>, <<"tenants">>, <<"users">> }

TenantPages ==
  { <<"dashboard">>, <<"sales">>, <<"inventory">>, <<"customers">>,
    <<"reports">>, <<"settings">>, <<"integrations">> }

\* the pathnames a browser may be sent to
Paths ==
  PublicPaths \cup TenantPages \cup
  { <<"superadmin">>, <<"superadmin", "tenants">>, <<"superadmin", "users">>,
    <<"superadmin", "billing">>, <<"superadminx">>, <<"admin">>,
    <<"admin", "sales">>, <<"profile">>, <<"signup", "plan">>, <<"nowhere">> }

RouteHosts ==
  { <<"acme", "vibepos", "shop">>, <<"vibepos", "shop">>, <<"acme", "vibenet", "shop">> }

\* the first segments of Paths whose text starts with the given text
SegmentsStartingWith(text) ==
  CASE text = "superadmin" -> {"superadmin", "superadminx"}
    [] OTHER -> {text}

\* window.location.pathname.startsWith('/' + text)
PathStartsWith(pathName, text) ==
  Len(pathName) >= 1 /\ pathName[1] \in SegmentsStartingWith(text)

\* hostname.includes('.vibepos.shop') && hostname !== 'vibepos.shop'
IsOnVibeposSubdomain(h) ==
  \E i \in 2..Len(h) : i + 1 <= Len(h) /\ h[i] = "vibepos" /\ h[i + 1] = "shop"

NoRoles == {}

\* ProtectedRoute after its loading and sign-in checks: the role check, the
\* /dashboard rule and the per-role redirects
RoleRules(hasAllowed, allowedRoles, role, pathName, h) ==
  IF hasAllowed /\ role # Null /\ role \notin allowedRoles
  THEN [kind |-> "redirect", to |-> <<"admin">>]
  ELSE IF pathName = <<"dashboard">>
  THEN IF role = "superadmin"
       THEN [kind |-> "redirect", to |-> <<"superadmin">>]
       ELSE IF role = "admin" \/ role = "manager"
       THEN [kind |-> "redirect",
             to |-> IF IsOnVibeposSubdomain(h) THEN <<>> ELSE <<"admin">>]
       ELSE [kind |-> "redirect", to |-> <<"admin">>]
  ELSE IF /\ role = "superadmin"
          /\ ~PathStartsWith(pathName, "superadmin")
          /\ ~PathStartsWith(pathName, "auth")
          /\ ~PathStartsWith(pathName, "profile")
  THEN [kind |-> "redirect", to |-> <<"superadmin">>]
  ELSE IF /\ role \in {"admin", "manager", "cashier", "user"}
          /\ \/ pathName = <<>>
             \/ pathName = <<"demo">>
             \/ PathStartsWith(pathName, "signup")
             \/ PathStartsWith(pathName, "success")
  THEN [kind |-> "redirect", to |-> <<"admin">>]
  ELSE [kind |-> "children", to |-> <<>>]

ProtectedRoute_NoLoadingCheck(hasAllowed, allowedRoles, loading, u, role, pathName, h) ==
  IF ~u THEN [kind |-> "redirect", to |-> <<"auth">>]
  ELSE RoleRules(hasAllowed, allowedRoles, role, pathName, h)

\* ProtectedRoute: "spinner", "children", or the target of a <Navigate>.
\* hasAllowed is whether the allowedRoles prop was given.
ProtectedRoute(hasAllowed, allowedRoles, loading, u, role, pathName, h) ==
  IF loading THEN [kind |-> "spinner", to |-> <<>>]
  ELSE IF ~u THEN [kind |-> "redirect", to |-> <<"auth">>]
  ELSE RoleRules(hasAllowed, allowedRoles, role, pathName, h)

\* What the <Routes> of UnifiedRouter render for a location:
\*   kind      "page", "spinner" or "redirect" (a <Navigate replace>)
\*   guarded   the matched route is wrapped in ProtectedRoute
\*   children  ProtectedRoute rendered its children
RenderRoutes(loading, u, role, pathName, h) ==
  LET plain == [kind |-> "page", to |-> <<>>, guarded |-> FALSE,
                hasAllowed |-> FALSE, allowed |-> NoRoles, children |-> FALSE]
  IN IF pathName \in PublicPaths
     THEN plain
     ELSE IF Len(pathName) >= 1 /\ pathName[1] = "superadmin"
     THEN LET g == ProtectedRoute(TRUE, {"superadmin"}, loading, u, role, pathName, h)
              out == [plain EXCEPT !.guarded = TRUE, !.hasAllowed = TRUE,
                                   !.allowed = {"superadmin"}]
          IN IF g.kind # "children"
             THEN [out EXCEPT !.kind = g.kind, !.to = g.to]
             ELSE IF Tail(pathName) \in SuperAdminPages
             THEN [out EXCEPT !.children = TRUE]
             ELSE [out EXCEPT !.children = TRUE, !.kind = "redirect",
                              !.to = <<"superadmin">>]
     ELSE LET g == ProtectedRoute(FALSE, NoRoles, loading, u, role, pathName, h)
              out == [plain EXCEPT !.guarded = TRUE]
          IN IF g.kind # "children"
             THEN [out EXCEPT !.kind = g.kind, !.to = g.to]
             ELSE IF pathName \in TenantPages
             THEN [out EXCEPT !.children = TRUE]
             ELSE [out EXCEPT !.children = TRUE, !.kind = "redirect",
                              !.to = <<"dashboard">>]

\* what is on screen in the current state
Screen == RenderRoutes(authLoading, user, userRole, pathname, hostname)


\* AuthContext: the stored session is found while auth is initializing
SessionRestored ==
  /\ authLoading /\ ~user
  /\ user' = TRUE
  /\ visited' = {}
  /\ UNCHANGED <<authLoading, userRole, pathname>>
  /\ UNCHANGED outsideRoute

\* AuthContext: initialization ends, with or without the role loaded
AuthSettled(r) ==
  /\ authLoading
  /\ authLoading' = FALSE
  /\ userRole' = IF user THEN r ELSE Null
  /\ visited' = {}
  /\ UNCHANGED <<user, pathname>>
  /\ UNCHANGED outsideRoute

\* AuthContext: sign-in (the role may arrive later)
SignedIn(r) ==
  /\ ~authLoading /\ ~user
  /\ user' = TRUE
  /\ userRole' = r
  /\ visited' = {}
  /\ UNCHANGED <<authLoading, pathname>>
  /\ UNCHANGED outsideRoute

\* AuthContext: the profile with the role is loaded
RoleLoaded(r) ==
  /\ ~authLoading /\ user /\ userRole = Null
  /\ userRole' = r
  /\ visited' = {}
  /\ UNCHANGED <<authLoading, user, pathname>>
  /\ UNCHANGED outsideRoute

\* AuthContext: sign-out
SignedOut ==
  /\ ~authLoading /\ user
  /\ user' = FALSE
  /\ userRole' = Null
  /\ visited' = {}
  /\ UNCHANGED <<authLoading, pathname>>
  /\ UNCHANGED outsideRoute

\* the user opens a URL or follows a link
UserNavigates(p) ==
  /\ p # pathname
  /\ pathname' = p
  /\ visited' = {}
  /\ UNCHANGED <<authLoading, user, userRole>>
  /\ UNCHANGED outsideRoute

\* a rendered <Navigate to=... replace /> takes effect
FollowRedirect ==
  /\ Screen.kind = "redirect"
  /\ pathname' = Screen.to
  /\ visited' = visited \cup {pathname}
  /\ UNCHANGED <<authLoading, user, userRole>>
  /\ UNCHANGED outsideRoute

NextRoute ==
  \/ SessionRestored
  \/ \E r \in Roles \cup {Null} : AuthSettled(r)
  \/ \E r \in Roles \cup {Null} : SignedIn(r)
  \/ \E r \in Roles : RoleLoaded(r)
  \/ SignedOut
  \/ \E p \in Paths : UserNavigates(p)
  \/ FollowRedirect

(***************************************************************************)
(* Part C.  Pure helpers of the client: NavigationService.hasRouteAccess   *)
(* and useDeletionControl.canDelete                                        *)
(***************************************************************************)

PublicRouteConfig == [requiresAuth |-> FALSE, hasAllowedRoles |-> FALSE,
                      allowedRoles |-> NoRoles, isPublic |-> TRUE]
SuperAdminRouteConfig == [requiresAuth |-> TRUE, hasAllowedRoles |-> TRUE,
                          allowedRoles |-> {"superadmin"}, isPublic |-> FALSE]
TenantRouteConfig == [requiresAuth |-> TRUE, hasAllowedRoles |-> FALSE,
                      allowedRoles |-> NoRoles, isPublic |-> FALSE]

SuperAdminRoutePaths ==
  { <<"superadmin">>, <<"superadmin", "tenants">>, <<"superadmin", "users">> }

AdminRoutePaths ==
  { <<"admin">>, <<"admin", "products">>, <<"admin", "sales">>,
    <<"admin", "customers">>, <<"admin", "reports">>, <<"admin", "settings">> }

\* NavigationService.routes
routes ==
  [p \in PublicPaths \cup SuperAdminRoutePaths \cup AdminRoutePaths |->
     IF p \in PublicPaths THEN PublicRouteConfig
     ELSE IF p \in SuperAdminRoutePaths THEN SuperAdminRouteConfig
     ELSE TenantRouteConfig]

\* the paths hasRouteAccess is asked about: the configured ones and some others
NavPaths ==
  DOMAIN routes \cup
  { <<"dashboard">>, <<"sales">>, <<"superadmin", "analytics">>,
    <<"superadminx">>, <<"admin", "team">>, <<"nowhere">> }

\* the userRole argument: a role, undefined/null (Null) or the empty string
RoleArgs == Roles \cup {Null, ""}

hasRouteAccess_NoRoleCheck(path, role) ==
  IF path \notin DOMAIN routes THEN FALSE
  ELSE IF ~routes[path].requiresAuth THEN TRUE
  ELSE IF role = Null \/ role = "" THEN FALSE
  ELSE TRUE

\* NavigationService.hasRouteAccess(path, userRole)
hasRouteAccess(path, role) ==
  IF path \notin DOMAIN routes THEN FALSE
  ELSE IF ~routes[path].requiresAuth THEN TRUE
  ELSE IF role = Null \/ role = "" THEN FALSE
  ELSE IF routes[path].hasAllowedRoles THEN role \in routes[path].allowedRoles
  ELSE TRUE

ResourceTypes == {"tenant", "product", "category", "supplier", "customer", "sale"}

canDelete_ManagerAsAdmin(role, resourceType) ==
  IF role = "superadmin" THEN TRUE
  ELSE IF role = "admin" /\ resourceType # "tenant" THEN TRUE
  ELSE IF role = "manager" /\ resourceType # "tenant" THEN TRUE
  ELSE FALSE

\* useDeletionControl().canDelete(resourceType) for the hook's userRole
canDelete(role, resourceType) ==
  IF role = "superadmin" THEN TRUE
  ELSE IF role = "admin" /\ resourceType # "tenant" THEN TRUE
  ELSE IF role = "manager" /\ resourceType \in {"product", "category", "supplier"} THEN TRUE
  ELSE FALSE

NoCall == [op |-> "none", path |-> <<>>, role |-> Null, resource |-> "", result |-> FALSE]


HasRouteAccessCalled(p, r) ==
  /\ clientCall' = [NoCall EXCEPT !.op = "hasRouteAccess", !.path = p, !.role = r,
                                  !.result = hasRouteAccess(p, r)]
  /\ UNCHANGED outsideClient

CanDeleteCalled(r, t) ==
  /\ clientCall' = [NoCall EXCEPT !.op = "canDelete", !.role = r, !.resource = t,
                                  !.result = canDelete(r, t)]
  /\ UNCHANGED outsideClient

NextClient ==
  \/ \E p \in NavPaths : \E r \in RoleArgs : HasRouteAccessCalled(p, r)
  \/ \E r \in Roles \cup {Null} : \E t \in ResourceTypes : CanDeleteCalled(r, t)

(***************************************************************************)
(* Part D.  Edge functions create-tenant-trial and unified-auth behind     *)
(* withCORS / withRateLimit / withValidation, and AuthService.signup       *)
(***************************************************************************)

\* ---- bounds of part D ----
MaxReqs == 2

ReqIds == 1..MaxReqs
UserIds == {"u1", "u2"}

\* Strings are sequences of one-character strings.
Emails ==
  { <<>>, <<"a", "@", "b", ".", "c">>, <<"a", "@", "b">> }
Passwords ==
  { <<>>, <<"p", "a", "s", "s", "w", "o", "r", "d">> }
FullNames ==
  { <<" ", "A", " ">>, <<"A", "l">> }
BusinessNames ==
  { <<>>, <<"A">>, <<"A", " ", "!">>, <<"A", " ", "b", "!">> }

\* billing_plans: id -> price
PlanPrice == [basic |-> 10, pro |-> 30]
Plans == DOMAIN PlanPrice

RECURSIVE TrimLeft(_)
TrimLeft(str) ==
  IF str # <<>> /\ Head(str) = " " THEN TrimLeft(Tail(str)) ELSE str

RECURSIVE TrimRight(_)
TrimRight(str) ==
  IF str # <<>> /\ str[Len(str)] = " "
  THEN TrimRight(SubSeq(str, 1, Len(str) - 1)) ELSE str

\* String.prototype.trim
Trim(str) == TrimRight(TrimLeft(str))

\* utils.validateEmail: /^[^\s@]+@[^\s@]+\.[^\s@]+$/
validateEmail(email) ==
  /\ \A i \in 1..Len(email) : email[i] # " "
  /\ Cardinality({i \in 1..Len(email) : email[i] = "@"}) = 1
  /\ \E at \in 2..Len(email) :
       /\ email[at] = "@"
       /\ \E dot \in (at + 2)..(Len(email) - 1) : email[dot] = "."

\* utils.validatePassword
validatePassword(password) ==
  password # <<>> /\ Len(password) >= 8

\* unified-auth validateAuthRequest: TRUE when valid
validateAuthRequest(data) ==
  IF data.email = <<>> \/ ~validateEmail(data.email) THEN FALSE
  ELSE IF ~data.isGoogleUser /\ (data.password = <<>> \/ ~validatePassword(data.password))
  THEN FALSE
  ELSE IF data.fullName = <<>> \/ Len(Trim(data.fullName)) < 2 THEN FALSE
  ELSE IF data.businessName = <<>> \/ Len(Trim(data.businessName)) < 2 THEN FALSE
  ELSE TRUE

\* create-tenant-trial validateTenantRequest: TRUE when valid
validateTenantRequest(data) ==
  IF data.userId = Null THEN FALSE
  ELSE IF data.businessName = <<>> THEN FALSE
  ELSE TRUE

\* AuthService.validateSignupData: TRUE when it returns null (no error)
validateSignupData(data) ==
  IF data.email = <<>> \/ ~(\E i \in 1..Len(data.email) : data.email[i] = "@") THEN FALSE
  ELSE IF data.password = <<>> \/ Len(data.password) < 8 THEN FALSE
  ELSE IF data.fullName = <<>> \/ Len(Trim(data.fullName)) < 2 THEN FALSE
  ELSE IF data.businessName = <<>> \/ Len(Trim(data.businessName)) < 2 THEN FALSE
  ELSE TRUE

\* toLowerCase on the characters used
LowerChar(ch) ==
  CASE ch = "A" -> "a"
    [] ch = "B" -> "b"
    [] OTHER -> ch

\* the characters kept by .replace(/[^a-z0-9\s-]/g, '')
KeptChars == {"a", "b", "c", "1", " ", "-"}

RECURSIVE LowerKeep(_)
LowerKeep(str) ==
  IF str = <<>> THEN <<>>
  ELSE LET ch == LowerChar(Head(str))
       IN IF ch \in KeptChars THEN <<ch>> \o LowerKeep(Tail(str))
          ELSE LowerKeep(Tail(str))

\* .replace(/\s+/g, '-') then .replace(/-+/g, '-'): every run of spaces
\* becomes one '-', then every run of '-' becomes one '-'
RECURSIVE SquashDashes(_)
SquashDashes(str) ==
  IF str = <<>> THEN <<>>
  ELSE LET ch == IF Head(str) = " " THEN "-" ELSE Head(str)
           rest == SquashDashes(Tail(str))
       IN IF ch = "-" /\ rest # <<>> /\ Head(rest) = "-" THEN rest
          ELSE <<ch>> \o rest

\* .replace(/^-|-$/g, ''): one leading and one trailing '-' are removed
StripEdgeDashes(str) ==
  LET a == IF str # <<>> /\ Head(str) = "-" THEN Tail(str) ELSE str
  IN IF a # <<>> /\ a[Len(a)] = "-" THEN SubSeq(a, 1, Len(a) - 1) ELSE a

\* utils.sanitizeSubdomain / AuthService.sanitizeSubdomain
sanitizeSubdomain(businessName) ==
  LET t == StripEdgeDashes(SquashDashes(LowerKeep(businessName)))
  IN SubSeq(t, 1, IF Len(t) < 30 THEN Len(t) ELSE 30)

\* .eq('is_active', true).order('price', { ascending: false }).limit(1):
\* the rows that may come first
HighestPlans(active) ==
  {p \in active : \A q \in active : PlanPrice[q] <= PlanPrice[p]}

\* the results of supabase.rpc('check_rate_limit'): an error, or data
RateLimitOutcomes == {"error", "true", "false"}

checkRateLimit_FailOpen(out) ==
  IF out = "error" THEN TRUE ELSE out = "true"

\* utils.checkRateLimit: its boolean result for an rpc outcome
checkRateLimit(out) ==
  IF out = "error" THEN FALSE ELSE out = "true"

withCORS_NoPreflight(method) == "handler"

\* withCORS: answer the preflight, or call the wrapped handler
withCORS(method) ==
  IF method = "OPTIONS" THEN "preflight" ELSE "handler"

IdleReq ==
  [flow |-> "none", pc |-> "idle", method |-> "none", rl |-> "none",
   stages |-> <<>>, wrote |-> {}, email |-> <<>>, businessName |-> <<>>,
   userId |-> Null, tenantId |-> 0, planId |-> Null, resp |-> "none"]

\* a finished request keeps what it went through and its answer
Answered(req, resp) ==
  [req EXCEPT !.pc = "done", !.resp = resp, !.email = <<>>,
              !.businessName = <<>>, !.planId = Null,
              !.userId = Null, !.tenantId = 0]

\* the answer of a flow whose provisioning threw
FailureResponse(flow) ==
  CASE flow = "create-tenant-trial" -> "500 TENANT_CREATION_FAILED"
    [] flow = "unified-auth" -> "500 INTERNAL_ERROR"
    [] OTHER -> "success: false"

SuccessResponse(flow) ==
  IF flow = "signup" THEN "success: true" ELSE "200"

\* the profiles row made for every user: no tenant yet
NewProfile == [role |-> "user", tenant_id |-> 0]


\* Request identifiers are handed out in order.
NextReq(r) ==
  /\ reqs[r].pc = "idle"
  /\ \A q \in ReqIds : q < r => reqs[q].pc # "idle"

\* A request reaches an edge function: withCORS, then withRateLimit up to
\* its check_rate_limit rpc
EdgeRequest(r, fn, method) ==
  /\ NextReq(r)
  /\ LET req == [IdleReq EXCEPT !.flow = fn, !.method = method]
     IN IF withCORS(method) = "preflight"
        THEN reqs' = [reqs EXCEPT ![r] = Answered(req, "200 preflight")]
        ELSE reqs' = [reqs EXCEPT ![r] =
               [req EXCEPT !.pc = "ratelimit", !.stages = <<"ratelimit">>]]
  /\ UNCHANGED <<activePlans, authUsers, tenants, profiles>>
  /\ UNCHANGED outsideEdge

\* withRateLimit after checkRateLimit: 429, or withValidation up to req.json()
RateLimitReturns(r, out) ==
  /\ reqs[r].pc = "ratelimit"
  /\ LET req == [reqs[r] EXCEPT !.rl = out]
     IN IF ~checkRateLimit(out)
        THEN reqs' = [reqs EXCEPT ![r] = Answered(req, "429 RATE_LIMIT_EXCEEDED")]
        ELSE reqs' = [reqs EXCEPT ![r] =
               [req EXCEPT !.pc = "parse",
                           !.stages = @ \o <<"ratelimit-ok", "validation">>]]
  /\ UNCHANGED <<activePlans, authUsers, tenants, profiles>>
  /\ UNCHANGED outsideEdge

\* withValidation after req.json(): 400, or the handler up to its first await.
\* parsed is "ok", "syntax" (req.json() threw a SyntaxError) or "throw" (any
\* other error of req.json() or of the validator, which withValidation
\* rethrows and withCORS answers with 500; unified-auth's validator calls
\* validateEmail and validatePassword, which its file does not import)
BodyParsed(r, parsed, data) ==
  /\ reqs[r].pc = "parse"
  /\ LET req == reqs[r]
         valid == IF req.flow = "unified-auth" THEN validateAuthRequest(data)
                  ELSE validateTenantRequest(data)
         inHandler == [req EXCEPT !.stages = @ \o <<"validation-ok", "handler">>,
                                  !.businessName = data.businessName]
     IN IF parsed = "syntax"
        THEN reqs' = [reqs EXCEPT ![r] = Answered(req, "400 INVALID_JSON")]
        ELSE IF parsed = "throw"
        THEN reqs' = [reqs EXCEPT ![r] = Answered(req, "500 INTERNAL_ERROR")]
        ELSE IF ~valid
        THEN reqs' = [reqs EXCEPT ![r] = Answered(req, "400 VALIDATION_ERROR")]
        ELSE IF req.flow = "create-tenant-trial"
        THEN reqs' = [reqs EXCEPT ![r] =
               [inHandler EXCEPT !.pc = "plans", !.userId = data.userId]]
        ELSE IF data.isGoogleUser
        THEN reqs' = [reqs EXCEPT ![r] = Answered(inHandler, "400 INVALID_AUTH_METHOD")]
        ELSE reqs' = [reqs EXCEPT ![r] =
               [inHandler EXCEPT !.pc = "createUser", !.email = data.email]]
  /\ UNCHANGED <<activePlans, authUsers, tenants, profiles>>
  /\ UNCHANGED outsideEdge

\* AuthService.signup up to listUsers
SignupCalled(r, data) ==
  /\ NextReq(r)
  /\ LET req == [IdleReq EXCEPT !.flow = "signup"]
     IN IF ~validateSignupData(data)
        THEN reqs' = [reqs EXCEPT ![r] = Answered(req, FailureResponse("signup"))]
        ELSE reqs' = [reqs EXCEPT ![r] =
               [req EXCEPT !.pc = "listUsers", !.email = data.email,
                           !.businessName = data.businessName]]
  /\ UNCHANGED <<activePlans, authUsers, tenants, profiles>>
  /\ UNCHANGED outsideEdge

\* AuthService.signup after listUsers: the duplicate check, then createUser
ListUsersReturns(r, out) ==
  /\ reqs[r].pc = "listUsers"
  /\ LET req == reqs[r]
         userExists == \E au \in authUsers : au.email = req.email
     IN IF out = "error" \/ userExists
        THEN reqs' = [reqs EXCEPT ![r] = Answered(req, FailureResponse(req.flow))]
        ELSE reqs' = [reqs EXCEPT ![r].pc = "createUser"]
  /\ UNCHANGED <<activePlans, authUsers, tenants, profiles>>
  /\ UNCHANGED outsideEdge

\* supabase.auth.admin.createUser returns; on success createTenant starts
\* with its billing_plans query.  The new user's id is one no user has;
\* which one is immaterial.
CreateUserReturns(r, out) ==
  /\ reqs[r].pc = "createUser"
  /\ LET req == reqs[r]
         free == {u \in UserIds : \A au \in authUsers : au.id # u}
     IN IF out = "error"
        THEN /\ reqs' = [reqs EXCEPT ![r] = Answered(req,
                    IF req.flow = "unified-auth" THEN "400 USER_CREATION_FAILED"
                    ELSE FailureResponse(req.flow))]
             /\ UNCHANGED authUsers
        ELSE /\ free # {}
             /\ \A au \in authUsers : au.email # req.email
             /\ LET u == CHOOSE id \in free : TRUE
                IN /\ authUsers' = authUsers \cup {[id |-> u, email |-> req.email]}
                   /\ reqs' = [reqs EXCEPT ![r] =
                        [req EXCEPT !.pc = "plans", !.userId = u, !.email = <<>>,
                                    !.wrote = @ \cup {"auth.users"}]]
  /\ UNCHANGED <<activePlans, tenants, profiles>>
  /\ UNCHANGED outsideEdge

\* the billing_plans query returns; with a plan the tenants insert is sent
PlansReturn(r, out) ==
  /\ reqs[r].pc = "plans"
  /\ LET req == reqs[r]
     IN IF out = "error" \/ activePlans = {}
        THEN reqs' = [reqs EXCEPT ![r] = Answered(req, FailureResponse(req.flow))]
        ELSE \E plan \in HighestPlans(activePlans) :
               reqs' = [reqs EXCEPT ![r].pc = "insert", ![r].planId = plan]
  /\ UNCHANGED <<activePlans, authUsers, tenants, profiles>>
  /\ UNCHANGED outsideEdge

SubdomainFree_NoConstraint(sub) == TRUE

\* the tenants table accepts a row only with a subdomain no other row has
SubdomainFree(sub) ==
  \A t \in tenants : t.subdomain # sub

\* the tenants insert returns; on success the profiles update is sent
InsertReturns(r, out) ==
  /\ reqs[r].pc = "insert"
  /\ LET req == reqs[r]
         row == [id |-> Cardinality(tenants) + 1,
                 name |-> req.businessName,
                 subdomain |-> sanitizeSubdomain(req.businessName),
                 status |-> "trial",
                 billing_plan_id |-> req.planId,
                 created_by |-> req.userId]
     IN IF out = "error"
        THEN /\ reqs' = [reqs EXCEPT ![r] = Answered(req, FailureResponse(req.flow))]
             /\ UNCHANGED tenants
        ELSE /\ SubdomainFree(row.subdomain)
             /\ tenants' = tenants \cup {row}
             /\ reqs' = [reqs EXCEPT ![r] =
                  [req EXCEPT !.pc = "profile", !.tenantId = row.id,
                              !.businessName = <<>>, !.planId = Null,
                              !.wrote = @ \cup {"tenants"}]]
  /\ UNCHANGED <<activePlans, authUsers, profiles>>
  /\ UNCHANGED outsideEdge

\* the profiles update returns
ProfileReturns(r, out) ==
  /\ reqs[r].pc = "profile"
  /\ LET req == reqs[r]
     IN IF out = "error"
        THEN /\ reqs' = [reqs EXCEPT ![r] = Answered(req, FailureResponse(req.flow))]
             /\ UNCHANGED profiles
        ELSE /\ profiles' = [profiles EXCEPT ![req.userId] =
                               [role |-> "admin", tenant_id |-> req.tenantId]]
             /\ LET upd == [req EXCEPT !.wrote = @ \cup {"profiles"}]
                IN IF req.flow = "create-tenant-trial"
                   THEN reqs' = [reqs EXCEPT ![r] = [upd EXCEPT !.pc = "rolesetup"]]
                   ELSE reqs' = [reqs EXCEPT ![r] = Answered(upd, SuccessResponse(req.flow))]
  /\ UNCHANGED <<activePlans, authUsers, tenants>>
  /\ UNCHANGED outsideEdge

\* create-tenant-trial: setup_tenant_admin_with_unified_roles returns; its
\* error is only logged
RoleSetupReturns(r, out) ==
  /\ reqs[r].pc = "rolesetup"
  /\ reqs' = [reqs EXCEPT ![r] = Answered(reqs[r], SuccessResponse(reqs[r].flow))]
  /\ UNCHANGED <<activePlans, authUsers, tenants, profiles>>
  /\ UNCHANGED outsideEdge

\* the fields of a JSON body that the called function reads: AuthRequest
\* for unified-auth, TenantRequest for create-tenant-trial (a field the
\* function never reads is held at one value)
EdgeBodies(fn) ==
  IF fn = "unified-auth"
  THEN [email : Emails, password : Passwords, isGoogleUser : BOOLEAN,
        fullName : FullNames, businessName : BusinessNames, userId : {Null}]
  ELSE [email : {<<>>}, password : {<<>>}, isGoogleUser : {FALSE},
        fullName : {<<>>}, businessName : BusinessNames,
        userId : {"u1", Null}]

\* what stands for the body when req.json() throws
NoBody ==
  [email |-> <<>>, password |-> <<>>, isGoogleUser |-> FALSE,
   fullName |-> <<>>, businessName |-> <<>>, userId |-> Null]

\* the SignupData passed to AuthService.signup
SignupInputs ==
  [email : Emails, password : Passwords, isGoogleUser : BOOLEAN,
   fullName : FullNames, businessName : BusinessNames]

NextEdge ==
  \/ \E r \in ReqIds : \E fn \in {"create-tenant-trial", "unified-auth"} :
       \E m \in {"OPTIONS", "POST"} : EdgeRequest(r, fn, m)
  \/ \E r \in ReqIds : \E out \in RateLimitOutcomes : RateLimitReturns(r, out)
  \/ \E r \in ReqIds : \E parsed \in {"syntax", "throw"} : BodyParsed(r, parsed, NoBody)
  \/ \E r \in ReqIds : \E data \in EdgeBodies(reqs[r].flow) : BodyParsed(r, "ok", data)
  \/ \E r \in ReqIds : \E data \in SignupInputs : SignupCalled(r, data)
  \/ \E r \in ReqIds : \E out \in {"ok", "error"} : ListUsersReturns(r, out)
  \/ \E r \in ReqIds : \E out \in {"ok", "error"} : CreateUserReturns(r, out)
  \/ \E r \in ReqIds : \E out \in {"ok", "error"} : PlansReturn(r, out)
  \/ \E r \in ReqIds : \E out \in {"ok", "error"} : InsertReturns(r, out)
  \/ \E r \in ReqIds : \E out \in {"ok", "error"} : ProfileReturns(r, out)
  \/ \E r \in ReqIds : \E out \in {"ok", "error"} : RoleSetupReturns(r, out)

(***************************************************************************)
(* Part E.  The retry policy given to the QueryClient (App.tsx)            *)
(***************************************************************************)

\* ---- bounds of part E ----
MaxFetches == 2

FetchIds == 1..MaxFetches

\* the errors a fetch fails with: without a status (a network failure), or
\* with an HTTP status
FetchErrors ==
  {[hasStatus |-> FALSE, status |-> 0]} \cup
  {[hasStatus |-> TRUE, status |-> st] : st \in {399, 400, 404, 499, 500}}

NoError == [hasStatus |-> FALSE, status |-> 0]

queryRetry_RetryOn4xx(failureCount, error) == failureCount < 3

\* defaultOptions.queries.retry
queryRetry(failureCount, error) ==
  IF error.hasStatus /\ error.status >= 400 /\ error.status < 500
  THEN FALSE
  ELSE failureCount < 3

\* defaultOptions.mutations.retry
mutationRetry == 1

\* what the library makes of the retry option after a failure: a function is
\* called with the number of failures so far, a number is compared with it
shouldRetry(kind, failureCount, error) ==
  IF kind = "query" THEN queryRetry(failureCount, error)
  ELSE failureCount < mutationRetry

\* runs counts the executions of the fetch function (history)
IdleFetch ==
  [kind |-> "none", pc |-> "idle", failureCount |-> 0, runs |-> 0, error |-> NoError]

\* fetch identifiers are handed out in order
NextFetch(f) ==
  /\ fetches[f].pc = "idle"
  /\ \A g \in FetchIds : g < f => fetches[g].pc # "idle"

\* useQuery / useMutation runs its function for the first time
StartFetch(f, kind) ==
  /\ NextFetch(f)
  /\ fetches' = [fetches EXCEPT ![f] =
       [IdleFetch EXCEPT !.kind = kind, !.pc = "running", !.runs = 1]]
  /\ UNCHANGED outsideRetry

FetchSucceeds(f) ==
  /\ fetches[f].pc = "running"
  /\ fetches' = [fetches EXCEPT ![f].pc = "success"]
  /\ UNCHANGED outsideRetry

\* the function rejects: the retry option decides between another run after
\* the retry delay and giving up
FetchFails(f, error) ==
  /\ fetches[f].pc = "running"
  /\ IF shouldRetry(fetches[f].kind, fetches[f].failureCount, error)
     THEN fetches' = [fetches EXCEPT ![f].pc = "waiting", ![f].error = error,
                                     ![f].failureCount = @ + 1]
     ELSE fetches' = [fetches EXCEPT ![f].pc = "failed", ![f].error = error]
  /\ UNCHANGED outsideRetry

\* the retry delay has passed
RetryFires(f) ==
  /\ fetches[f].pc = "waiting"
  /\ fetches' = [fetches EXCEPT ![f].pc = "running", ![f].error = NoError,
                                 ![f].runs = @ + 1]
  /\ UNCHANGED outsideRetry

NextRetry ==
  \/ \E f \in FetchIds : \E kind \in {"query", "mutation"} : StartFetch(f, kind)
  \/ \E f \in FetchIds : FetchSucceeds(f)
  \/ \E f \in FetchIds : \E error \in FetchErrors : FetchFails(f, error)
  \/ \E f \in FetchIds : RetryFires(f)

(***************************************************************************)
(* Part F.  NavigationService: getTenantFromSubdomain in its three         *)
(* implementations, handleOAuthCallback, getDefaultRedirectUrl             *)
(***************************************************************************)

\* NavigationService.config.mainDomain
mainDomain == <<"vibenet", "online">>

NavHosts ==
  { <<"acme", "vibenet", "online">>, <<"www", "vibenet", "online">>,
    <<"vibenet", "online">>, <<"localhost">>, <<"acme", "example", "com">> }

\* NavigationService.isSubdomain
isSubdomain(domain) == EndsWithDot(domain, mainDomain)

TenantStatuses == {"trial", "active", "suspended"}

\* the states of the tenants table: for each of two subdomains no row, or one
\* row in any status
TenantTables ==
  { rowsA \cup rowsW :
      rowsA \in {{}} \cup {{[id |-> "t1", subdomain |-> "acme", status |-> st]} :
                              st \in TenantStatuses},
      rowsW \in {{}} \cup {{[id |-> "t2", subdomain |-> "www", status |-> st]} :
                              st \in TenantStatuses} }

\* .eq('subdomain', subdomain) with a status filter, then .maybeSingle():
\* the id of the one matching row, or Null when no row matches
SelectTenantId(table, subdomain, statuses) ==
  LET rows == {t \in table : t.subdomain = subdomain /\ t.status \in statuses}
  IN IF rows = {} THEN Null ELSE (CHOOSE t \in rows : TRUE).id

\* what domainManager.getCurrentDomainConfig() gives the first implementation:
\* it throws, or its config holds a tenant id or null
DomainManagerResults == {"throw", Null} \cup TenantIds

\* getTenantFromSubdomain, first implementation of NavigationService.ts
getTenantFromSubdomain(domain, table, queryError, dm) ==
  IF ~isSubdomain(domain) THEN Null
  ELSE IF queryError THEN Null
  ELSE LET id == SelectTenantId(table, domain[1], {"active", "trial"})
       IN IF id # Null THEN id
          ELSE IF dm # "throw" /\ dm # Null THEN dm
          ELSE Null

\* getTenantFromSubdomain, second implementation of NavigationService.ts
getTenantFromSubdomain_Second(domain, table, queryError) ==
  IF ~isSubdomain(domain) THEN Null
  ELSE IF queryError THEN Null
  ELSE SelectTenantId(table, domain[1], {"active"})

\* getTenantFromSubdomain of the third NavigationService
getTenantFromSubdomain_Third(domain, table, queryError) ==
  IF ~isSubdomain(domain) THEN Null
  ELSE IF queryError THEN Null
  ELSE SelectTenantId(table, domain[1], {"active"})

NoNavCall == [op |-> "none"]

\* URLSearchParams.get(name): null when the parameter is absent, else its
\* decoded value (possibly the empty string)
NoParam == [present |-> FALSE, value |-> <<>>]
Param(value) == [present |-> TRUE, value |-> value]

TypeParams ==
  { NoParam, Param(<<>>), Param(<<"g">>), Param(<<"a", "?">>),
    Param(<<"x", "&", "s", "i", "g", "n", "u", "p", "=", "t", "r", "u", "e">>) }
SignupParams == { NoParam, Param(<<"t", "r", "u", "e">>), Param(<<"1">>) }
FromParams == { NoParam, Param(<<"i", "n", "v", "i", "t", "e">>), Param(<<"x">>) }
Hashes == { <<>>, <<"#", "t">>, <<"#", "a", "=", "b">> }

Str_AuthCallback == <<"/", "a", "u", "t", "h", "/", "c", "a", "l", "l", "b", "a", "c", "k">>
Str_Type == <<"t", "y", "p", "e", "=">>
Str_SignupTrue == <<"s", "i", "g", "n", "u", "p", "=", "t", "r", "u", "e">>
Str_FromInvite == <<"f", "r", "o", "m", "=", "i", "n", "v", "i", "t", "e">>

\* String.includes
Includes(str, part) ==
  \E i \in 1..(Len(str) - Len(part) + 1) : SubSeq(str, i, i + Len(part) - 1) = part

\* callbackUrl += callbackUrl.includes('?') ? '&' + text : '?' + text
AppendParam(callbackUrl, text) ==
  callbackUrl \o (IF Includes(callbackUrl, <<"?">>) THEN <<"&">> ELSE <<"?">>) \o text

\* NavigationService.handleOAuthCallback(searchParams, hash), the parameters
\* given as what searchParams.get returns for 'type', 'signup' and 'from'
handleOAuthCallback(type, signup, from, hash) ==
  LET isSignup == signup.present /\ signup.value = <<"t", "r", "u", "e">>
      isInvite == from.present /\ from.value = <<"i", "n", "v", "i", "t", "e">>
      u0 == Str_AuthCallback
      u1 == IF type.present /\ type.value # <<>>
            THEN u0 \o <<"?">> \o Str_Type \o type.value ELSE u0
      u2 == IF isSignup THEN AppendParam(u1, Str_SignupTrue) ELSE u1
      u3 == IF isInvite THEN AppendParam(u2, Str_FromInvite) ELSE u2
  IN IF hash # <<>> THEN u3 \o hash ELSE u3

HandleOAuthCallbackCalled(type, signup, from, hash) ==
  /\ navCall' = [op |-> "handleOAuthCallback", type |-> type, signup |-> signup,
                 from |-> from, hash |-> hash,
                 url |-> handleOAuthCallback(type, signup, from, hash)]
  /\ UNCHANGED outsideNav

\* the three implementations asked on the same host and table
\* NavigationService.getDefaultRedirectUrl(userRole) on the host `domain`
getDefaultRedirectUrl(role, domain) ==
  IF role = "superadmin" THEN <<"superadmin">>
  ELSE IF isSubdomain(domain) THEN <<"dashboard">>
  ELSE <<"dashboard">>

\* the router sends a signed-in user to the default page and the page is then
\* checked with hasRouteAccess (AuthenticationFlowTester tests 7.2 and 7.3)
GetDefaultRedirectUrlCalled(role) ==
  LET url == getDefaultRedirectUrl(role, hostname)
  IN /\ navCall' = [op |-> "getDefaultRedirectUrl", role |-> role, url |-> url,
                    access |-> hasRouteAccess(url, role)]
     /\ UNCHANGED outsideNav

GetTenantFromSubdomainCalled(table, queryError, dm) ==
  /\ navCall' = [op |-> "getTenantFromSubdomain", table |-> table,
                 queryError |-> queryError, dm |-> dm,
                 first |-> getTenantFromSubdomain(hostname, table, queryError, dm),
                 second |-> getTenantFromSubdomain_Second(hostname, table, queryError),
                 third |-> getTenantFromSubdomain_Third(hostname, table, queryError)]
  /\ UNCHANGED outsideNav

NextNav ==
  \/ \E table \in TenantTables : \E queryError \in BOOLEAN :
       \E dm \in DomainManagerResults : GetTenantFromSubdomainCalled(table, queryError, dm)
  \/ \E type \in TypeParams : \E signup \in SignupParams : \E from \in FromParams :
       \E hash \in Hashes : HandleOAuthCallbackCalled(type, signup, from, hash)
  \/ \E role \in Roles : GetDefaultRedirectUrlCalled(role)

(***************************************************************************)
(* Part G.  UnifiedRouter: the subdomain validation effect and what the    *)
(* router renders, in the variant of part_004 and in the variant of        *)
(* UnifiedRouter.tsx (the file holds the same component twice)             *)
(***************************************************************************)

\* the component of part_004 and the two copies in UnifiedRouter.tsx (lines 58
\* and 480), whose code is the same
RouterVariants == {"part_004", "UnifiedRouter.tsx:58", "UnifiedRouter.tsx:480"}

\* NavigationService.validateSubdomainAccess: the valid flag of its result
validateSubdomainAccess(domain, table, queryError, dm) ==
  IF ~isSubdomain(domain) THEN TRUE
  ELSE getTenantFromSubdomain(domain, table, queryError, dm) # Null

\* the domainLoading the component reads from useDomainContext(): part_004
\* renames the hook's loading; UnifiedRouter.tsx destructures a field
\* domainLoading, which the hook does not return (undefined, falsy)
domainLoading(rt) ==
  IF rt.variant = "part_004" THEN rt.loading ELSE FALSE

\* useState initial values: isValidating is true in part_004, false in
\* UnifiedRouter.tsx; useAuth and useDomainContext start loading
NewRouter(variant) ==
  [variant |-> variant, mounted |-> FALSE, authLoading |-> TRUE, loading |-> TRUE,
   isValidating |-> (variant = "part_004"), subdomainError |-> Null,
   pending |-> 0, last |-> "none"]

NoRouter == NewRouter("part_004")

\* one run of the validation effect: it returns at once while loading, else it
\* calls validateSubdomainAccess and awaits the result
ValidationEffect(rt) ==
  IF rt.variant = "part_004"
  THEN IF domainLoading(rt) THEN rt ELSE [rt EXCEPT !.pending = @ + 1]
  ELSE IF rt.authLoading \/ domainLoading(rt) THEN rt
       ELSE [rt EXCEPT !.pending = @ + 1]

\* what the component returns
RouterScreen(rt) ==
  IF rt.variant = "part_004"
  THEN IF rt.isValidating \/ domainLoading(rt) THEN "PageLoader"
       ELSE IF rt.subdomainError # Null THEN "Workspace Not Found"
       ELSE "Routes"
  ELSE IF rt.authLoading \/ domainLoading(rt) \/ rt.isValidating THEN "PageLoader"
       ELSE "Routes"

\* the component mounts and its effect runs for the first time
RouterMounts ==
  /\ ~router.mounted
  /\ router' = ValidationEffect([router EXCEPT !.mounted = TRUE])
  /\ UNCHANGED outsideRouter

\* useAuth's loading becomes false; the effect of UnifiedRouter.tsx depends on
\* it, the one of part_004 does not
RouterAuthSettled ==
  /\ router.mounted /\ router.authLoading
  /\ LET rt == [router EXCEPT !.authLoading = FALSE]
     IN router' = IF rt.variant = "part_004" THEN rt ELSE ValidationEffect(rt)
  /\ UNCHANGED outsideRouter

\* useDomainContext's loading becomes false; the effect reruns when the
\* component's domainLoading changed
RouterDomainSettled ==
  /\ router.mounted /\ router.loading
  /\ LET rt == [router EXCEPT !.loading = FALSE]
     IN router' = IF domainLoading(rt) # domainLoading(router)
                  THEN ValidationEffect(rt) ELSE rt
  /\ UNCHANGED outsideRouter

\* a validateSubdomainAccess call returns and the effect's continuation runs
ValidationReturns(table, queryError, dm) ==
  /\ router.pending > 0
  /\ LET valid == validateSubdomainAccess(hostname, table, queryError, dm)
         rt == [router EXCEPT !.pending = @ - 1,
                              !.last = IF valid THEN "valid" ELSE "invalid"]
     IN router' =
          IF rt.variant = "part_004"
          THEN [rt EXCEPT !.subdomainError = IF valid THEN @ ELSE "does not exist",
                          !.isValidating = FALSE]
          ELSE IF ~valid THEN rt
          ELSE [rt EXCEPT !.isValidating = FALSE]
  /\ UNCHANGED outsideRouter

NextRouter ==
  \/ RouterMounts
  \/ RouterAuthSettled
  \/ RouterDomainSettled
  \/ \E table \in TenantTables : \E queryError \in BOOLEAN :
       \E dm \in DomainManagerResults : ValidationReturns(table, queryError, dm)

(***************************************************************************)
(* Part H.  useDomainContext: the hook of part_011, with state per         *)
(* consumer, and the hook of useCurrencySettings.ts, with module-level     *)
(* state shared by its consumers.  A call of getCurrentDomainConfig is one *)
(* awaited step here; Part A models what happens inside it.                *)
(***************************************************************************)

MaxConsumers == 2
ConsumerIds == 1..MaxConsumers

HookImpls == {"part_011", "useCurrencySettings.ts"}

\* a domainConfig of null
NullConfig ==
  [tenantId |-> Null, domain |-> <<>>, isCustomDomain |-> FALSE, isSubdomain |-> FALSE]

\* the fallback config of the hooks' catch branches
FallbackConfig(d) ==
  [tenantId |-> Null, domain |-> d, isCustomDomain |-> FALSE, isSubdomain |-> FALSE]

\* How a getCurrentDomainConfig call can end for hostname d: answered without
\* a lookup (development or main hostname), a tenant found (lookup or cache),
\* no tenant found, or the lookup failed (error result or rejected promise)
ConfigOutcomes(d) ==
  IF IsDevOrMainDomain(d) THEN {[kind |-> "static", tenantId |-> Null]}
  ELSE {[kind |-> "found", tenantId |-> "t1"], [kind |-> "notFound", tenantId |-> Null],
        [kind |-> "error", tenantId |-> Null]}

\* the config getCurrentDomainConfig resolves with: the parsed hostname with
\* the tenant id; on a failed lookup the parsed hostname as it is
ResolvedConfig(d, out) == [parseDomain(d) EXCEPT !.tenantId = out.tenantId]

\* let globalDomainConfig = null; globalLoading = true; globalInitialized =
\* false; globalPromise = null (promise: 0, or the consumer whose effect made it)
NewGlobals ==
  [config |-> NullConfig, loading |-> TRUE, initialized |-> FALSE, promise |-> 0]

\* an initializeDomain run: not started, awaiting getCurrentDomainConfig,
\* awaiting setupTenantContext, or settled
NoInit == [pc |-> "none", config |-> NullConfig, kind |-> "none"]

\* a consumer: mounted or not, the hook's three states, the init run whose
\* settlement it awaits, its refreshConfig call, and how it got its config
NoConsumer ==
  [mounted |-> FALSE, domainConfig |-> NullConfig, loading |-> TRUE,
   initialized |-> FALSE, waitsOn |-> 0, refresh |-> "none", how |-> "none",
   loadedOnce |-> FALSE]

Loaded_StillLoading(cs, config, how) ==
  [cs EXCEPT !.domainConfig = config, !.initialized = TRUE, !.waitsOn = 0, !.how = how]

\* setDomainConfig(config); setLoading(false); setInitialized(true)
Loaded(cs, config, how) ==
  [cs EXCEPT !.domainConfig = config, !.loading = FALSE, !.initialized = TRUE,
             !.waitsOn = 0, !.how = how,
             !.loadedOnce = @ \/ config # NullConfig]

\* the .then/.catch handlers of the consumers that await init run k
SettleWaiters(cons, k, config, how) ==
  [j \in ConsumerIds |->
     IF cons[j].waitsOn = k THEN Loaded(cons[j], config, how) ELSE cons[j]]

\* a consumer mounts: useState initial values, then the effect's first run
Mount(k) ==
  /\ ~consumers[k].mounted
  /\ IF k = 1 THEN TRUE ELSE consumers[k - 1].mounted
  /\ IF hookImpl = "part_011"
     THEN /\ consumers' = [consumers EXCEPT ![k] = [NoConsumer EXCEPT !.mounted = TRUE, !.waitsOn = k]]
          /\ inits' = [inits EXCEPT ![k] = [NoInit EXCEPT !.pc = "config"]]
          /\ UNCHANGED globals
     ELSE LET cs == [NoConsumer EXCEPT !.mounted = TRUE,
                                       !.domainConfig = globals.config,
                                       !.loading = globals.loading,
                                       !.initialized = globals.initialized]
          IN IF globals.initialized /\ globals.config # NullConfig
             THEN /\ consumers' = [consumers EXCEPT ![k] = Loaded(cs, globals.config, "global")]
                  /\ UNCHANGED <<inits, globals>>
             ELSE IF globals.promise # 0
             THEN /\ consumers' = [consumers EXCEPT ![k] = [cs EXCEPT !.waitsOn = globals.promise]]
                  /\ UNCHANGED <<inits, globals>>
             ELSE IF ~hasGetInstance
             THEN \* domainManager.getInstance is not a function: the promise
                  \* is rejected and the catch handler runs
                  /\ inits' = [inits EXCEPT ![k] = [NoInit EXCEPT !.pc = "rejected", !.kind = "throw"]]
                  /\ globals' = [config |-> FallbackConfig(hostname), loading |-> FALSE,
                                 initialized |-> TRUE, promise |-> k]
                  /\ consumers' = [consumers EXCEPT ![k] =
                                     Loaded(cs, FallbackConfig(hostname), "throw")]
             ELSE /\ inits' = [inits EXCEPT ![k] = [NoInit EXCEPT !.pc = "config"]]
                  /\ globals' = [globals EXCEPT !.promise = k]
                  /\ consumers' = [consumers EXCEPT ![k] = [cs EXCEPT !.waitsOn = k]]
  /\ UNCHANGED <<hookImpl, hasGetInstance>>
  /\ UNCHANGED outsideHook

\* initializeDomain has its config and its tenant context: the run settles
InitResolves(k, config, kind) ==
  IF hookImpl = "part_011"
  THEN /\ consumers' = [consumers EXCEPT ![k] = Loaded(@, config, kind)]
       /\ inits' = [inits EXCEPT ![k] = [NoInit EXCEPT !.pc = "resolved"]]
       /\ UNCHANGED globals
  ELSE /\ globals' = [globals EXCEPT !.config = config, !.loading = FALSE,
                                     !.initialized = TRUE]
       /\ inits' = [inits EXCEPT ![k] = [NoInit EXCEPT !.pc = "resolved"]]
       /\ consumers' = SettleWaiters(consumers, k, config, kind)

\* the getCurrentDomainConfig call of init run k returns
InitConfigReturns(k, out) ==
  /\ inits[k].pc = "config"
  /\ LET config == ResolvedConfig(hostname, out)
     IN IF config.isSubdomain /\ config.tenantId # Null
        THEN /\ inits' = [inits EXCEPT ![k] = [pc |-> "setup", config |-> config,
                                                kind |-> out.kind]]
             /\ consumers' = IF hookImpl = "part_011"
                             THEN [consumers EXCEPT ![k].domainConfig = config,
                                                    ![k].initialized = TRUE,
                                                    ![k].how = out.kind]
                             ELSE consumers
             /\ UNCHANGED globals
        ELSE InitResolves(k, config, out.kind)
  /\ UNCHANGED <<hookImpl, hasGetInstance>>
  /\ UNCHANGED outsideHook

\* setupTenantContext returns or throws (the hook catches it)
InitSetupReturns(k) ==
  /\ inits[k].pc = "setup"
  /\ InitResolves(k, inits[k].config, inits[k].kind)
  /\ UNCHANGED <<hookImpl, hasGetInstance>>
  /\ UNCHANGED outsideHook

\* refreshConfig() up to its await; each consumer calls it at most once
RefreshConfig(k) ==
  /\ consumers[k].mounted
  /\ consumers[k].refresh = "none"
  /\ globals' = IF hookImpl = "part_011" THEN globals ELSE NewGlobals
  /\ consumers' = [consumers EXCEPT ![k].loading = TRUE,
                                    ![k].refresh = IF hasGetInstance THEN "config"
                                                   ELSE "rejected"]
  /\ UNCHANGED <<hookImpl, hasGetInstance, inits>>
  /\ UNCHANGED outsideHook

\* the getCurrentDomainConfig call of refreshConfig returns
RefreshReturns(k, out) ==
  /\ consumers[k].refresh = "config"
  /\ LET config == ResolvedConfig(hostname, out)
     IN /\ globals' = IF hookImpl = "part_011" THEN globals
                      ELSE [globals EXCEPT !.config = config, !.loading = FALSE,
                                           !.initialized = TRUE]
        /\ consumers' = [consumers EXCEPT ![k].domainConfig = config,
                                          ![k].loading = FALSE,
                                          ![k].refresh = "done",
                                          ![k].how = out.kind,
                                          ![k].loadedOnce = TRUE]
  /\ UNCHANGED <<hookImpl, hasGetInstance, inits>>
  /\ UNCHANGED outsideHook

NextHook ==
  \/ \E k \in ConsumerIds : Mount(k)
  \/ \E k \in ConsumerIds : \E out \in ConfigOutcomes(hostname) : InitConfigReturns(k, out)
  \/ \E k \in ConsumerIds : InitSetupReturns(k)
  \/ \E k \in ConsumerIds : RefreshConfig(k)
  \/ \E k \in ConsumerIds : \E out \in ConfigOutcomes(hostname) : RefreshReturns(k, out)

(***************************************************************************)
(* Part I.  LoggingService: log() and flushLogs().  Entries are numbered   *)
(* in the order log() received them.  maxLogs (1000 in the code) and       *)
(* batchSize (50) are scaled down.                                         *)
(***************************************************************************)

MaxEntries == 4
MaxFlushes == 2
maxLogs == 3
batchSize == 2

FlushIds == 1..MaxFlushes

\* How the awaited system_logs insert can end: the rows are stored, the
\* promise resolves with an error result, or the promise is rejected
FlushInsertOutcomes == {"ok", "error", "throw"}

\* the elements of a sequence
Elements(seq) == {seq[i] : i \in 1..Len(seq)}

\* this.logs.slice(-this.maxLogs)
SliceLast(seq, n) ==
  IF Len(seq) > n THEN SubSeq(seq, Len(seq) - n + 1, Len(seq)) ELSE seq

\* log(): push the entry, then keep the last maxLogs entries
Log ==
  /\ logged < MaxEntries
  /\ LET pushed == Append(logs, logged + 1)
     IN /\ logs' = SliceLast(pushed, maxLogs)
        /\ dropped' = dropped \cup (Elements(pushed) \ Elements(SliceLast(pushed, maxLogs)))
  /\ logged' = logged + 1
  /\ UNCHANGED <<batches, flushed>>
  /\ UNCHANGED outsideLog

\* flushLogs() up to its await (called by the 30 s timer and by destroy):
\* splice the first batchSize entries off the buffer and send them
FlushLogs(f) ==
  /\ logs # <<>>
  /\ batches[f] = <<>>
  /\ \A g \in FlushIds : g < f => batches[g] # <<>>
  /\ LET n == IF Len(logs) < batchSize THEN Len(logs) ELSE batchSize
     IN /\ batches' = [batches EXCEPT ![f] = SubSeq(logs, 1, n)]
        /\ logs' = SubSeq(logs, n + 1, Len(logs))
  /\ UNCHANGED <<logged, flushed, dropped>>
  /\ UNCHANGED outsideLog

\* the continuation of flushLogs() after the await: the catch branch runs
\* only when the promise was rejected
PutBack(out, batch, buffer) ==
  IF out = "throw" THEN batch \o buffer ELSE buffer

\* the insert of a flushLogs call returns
FlushInsertReturns(f, out) ==
  /\ batches[f] # <<>>
  /\ logs' = PutBack(out, batches[f], logs)
  /\ flushed' = IF out = "ok" THEN flushed \cup Elements(batches[f]) ELSE flushed
  /\ batches' = [batches EXCEPT ![f] = <<>>]
  /\ UNCHANGED <<logged, dropped>>
  /\ UNCHANGED outsideLog

NextLog ==
  \/ Log
  \/ \E f \in FlushIds : FlushLogs(f)
  \/ \E f \in FlushIds : \E out \in FlushInsertOutcomes : FlushInsertReturns(f, out)

(***************************************************************************)
(* Part J.  pages/Index.tsx and pages/LandingPage.tsx: one synchronous     *)
(* render pass, component by component.  useAuth's loading cannot change   *)
(* during a pass.                                                          *)
(***************************************************************************)

\* the model follows a pass down to this many nested Index elements
MaxDepth == 60

PageRoots == {"Index", "LandingPage"}

\* what a component returns: the next component to render, or what it shows
RenderComponent(component, loading, showSignup) ==
  IF component = "Index"
  THEN IF loading THEN "Index"
       ELSE IF showSignup THEN "UnifiedSignup"
       ELSE "landing page"
  ELSE IF loading THEN "Index"
       ELSE IF showSignup THEN "UnifiedSignup"
       ELSE "Index"

NoPage ==
  [root |-> "none", loading |-> TRUE, showSignup |-> FALSE, pc |-> "idle",
   at |-> "none", nested |-> 0, shown |-> "none"]

\* a render pass starts at the root
StartPass(pg) ==
  [pg EXCEPT !.pc = "rendering", !.at = pg.root, !.nested = 0, !.shown = "none"]

\* the route element is mounted
PageMounts(root) ==
  /\ page.pc = "idle"
  /\ page' = StartPass([page EXCEPT !.root = root])
  /\ UNCHANGED outsidePage

\* React renders the component the pass is at; the showSignup state of a
\* nested Index is its own and starts as false
RenderStep ==
  /\ page.pc = "rendering"
  /\ page.nested < MaxDepth
  /\ LET own == IF page.at = page.root THEN page.showSignup ELSE FALSE
         out == RenderComponent(page.at, page.loading, own)
     IN page' = IF out = "Index"
                THEN [page EXCEPT !.at = "Index",
                                  !.nested = IF page.at = "Index" THEN @ + 1 ELSE @]
                ELSE [page EXCEPT !.pc = "done", !.at = "none", !.shown = out]
  /\ UNCHANGED outsidePage

\* useAuth's loading becomes false between passes; the page renders again
PageAuthSettled ==
  /\ page.pc \in {"idle", "done"}
  /\ page.loading
  /\ page' = IF page.pc = "idle" THEN [page EXCEPT !.loading = FALSE]
             ELSE StartPass([page EXCEPT !.loading = FALSE])
  /\ UNCHANGED outsidePage

\* LandingPage's onSignupClick: setShowSignup(true)
SignupClicked ==
  /\ page.pc = "done" /\ page.root = "LandingPage"
  /\ page.shown = "landing page" /\ ~page.showSignup
  /\ page' = StartPass([page EXCEPT !.showSignup = TRUE])
  /\ UNCHANGED outsidePage

NextPage ==
  \/ \E root \in PageRoots : PageMounts(root)
  \/ RenderStep
  \/ PageAuthSettled
  \/ SignupClicked

(***************************************************************************)
(* Specifications: each part runs with the other parts at rest             *)
(***************************************************************************)

\* DomainManager after construction; nothing else has happened
InitSpecDomain ==
  /\ hostname \in Hosts
  /\ now = 0
  /\ cache = [h \in Hosts |-> NoEntry]
  /\ resolving = {}
  /\ calls = [c \in CallIds |-> IdleCall]
  /\ timedOut = FALSE
  /\ authLoading = TRUE
  /\ user = FALSE
  /\ userRole = Null
  /\ pathname = <<>>
  /\ visited = {}
  /\ clientCall = NoCall
  /\ activePlans = {}
  /\ authUsers = {}
  /\ tenants = {}
  /\ profiles = [u \in UserIds |-> NewProfile]
  /\ reqs = [r \in ReqIds |-> IdleReq]
  /\ fetches = [f \in FetchIds |-> IdleFetch]
  /\ navCall = NoNavCall
  /\ router = NoRouter
  /\ hookImpl = "part_011"
  /\ hasGetInstance = TRUE
  /\ globals = NewGlobals
  /\ inits = [k \in ConsumerIds |-> NoInit]
  /\ consumers = [k \in ConsumerIds |-> NoConsumer]
  /\ logs = <<>>
  /\ logged = 0
  /\ batches = [f \in FlushIds |-> <<>>]
  /\ flushed = {}
  /\ dropped = {}
  /\ page = NoPage

\* the router mounted while auth is initializing, on any location
InitSpecRoute ==
  /\ hostname \in RouteHosts
  /\ now = 0
  /\ cache = [h \in Hosts |-> NoEntry]
  /\ resolving = {}
  /\ calls = [c \in CallIds |-> IdleCall]
  /\ timedOut = FALSE
  /\ authLoading = TRUE
  /\ user = FALSE
  /\ userRole = Null
  /\ pathname \in Paths
  /\ visited = {}
  /\ clientCall = NoCall
  /\ activePlans = {}
  /\ authUsers = {}
  /\ tenants = {}
  /\ profiles = [u \in UserIds |-> NewProfile]
  /\ reqs = [r \in ReqIds |-> IdleReq]
  /\ fetches = [f \in FetchIds |-> IdleFetch]
  /\ navCall = NoNavCall
  /\ router = NoRouter
  /\ hookImpl = "part_011"
  /\ hasGetInstance = TRUE
  /\ globals = NewGlobals
  /\ inits = [k \in ConsumerIds |-> NoInit]
  /\ consumers = [k \in ConsumerIds |-> NoConsumer]
  /\ logs = <<>>
  /\ logged = 0
  /\ batches = [f \in FlushIds |-> <<>>]
  /\ flushed = {}
  /\ dropped = {}
  /\ page = NoPage

\* no call of the helpers yet
InitSpecClient ==
  /\ hostname = <<"localhost">>
  /\ now = 0
  /\ cache = [h \in Hosts |-> NoEntry]
  /\ resolving = {}
  /\ calls = [c \in CallIds |-> IdleCall]
  /\ timedOut = FALSE
  /\ authLoading = TRUE
  /\ user = FALSE
  /\ userRole = Null
  /\ pathname = <<>>
  /\ visited = {}
  /\ clientCall = NoCall
  /\ activePlans = {}
  /\ authUsers = {}
  /\ tenants = {}
  /\ profiles = [u \in UserIds |-> NewProfile]
  /\ reqs = [r \in ReqIds |-> IdleReq]
  /\ fetches = [f \in FetchIds |-> IdleFetch]
  /\ navCall = NoNavCall
  /\ router = NoRouter
  /\ hookImpl = "part_011"
  /\ hasGetInstance = TRUE
  /\ globals = NewGlobals
  /\ inits = [k \in ConsumerIds |-> NoInit]
  /\ consumers = [k \in ConsumerIds |-> NoConsumer]
  /\ logs = <<>>
  /\ logged = 0
  /\ batches = [f \in FlushIds |-> <<>>]
  /\ flushed = {}
  /\ dropped = {}
  /\ page = NoPage

\* the database before any request, with or without active billing plans
InitSpecEdge ==
  /\ hostname = <<"localhost">>
  /\ now = 0
  /\ cache = [h \in Hosts |-> NoEntry]
  /\ resolving = {}
  /\ calls = [c \in CallIds |-> IdleCall]
  /\ timedOut = FALSE
  /\ authLoading = TRUE
  /\ user = FALSE
  /\ userRole = Null
  /\ pathname = <<>>
  /\ visited = {}
  /\ clientCall = NoCall
  /\ activePlans \in {{}, Plans}
  /\ authUsers = {}
  /\ tenants = {}
  /\ profiles = [u \in UserIds |-> NewProfile]
  /\ reqs = [r \in ReqIds |-> IdleReq]
  /\ fetches = [f \in FetchIds |-> IdleFetch]
  /\ navCall = NoNavCall
  /\ router = NoRouter
  /\ hookImpl = "part_011"
  /\ hasGetInstance = TRUE
  /\ globals = NewGlobals
  /\ inits = [k \in ConsumerIds |-> NoInit]
  /\ consumers = [k \in ConsumerIds |-> NoConsumer]
  /\ logs = <<>>
  /\ logged = 0
  /\ batches = [f \in FlushIds |-> <<>>]
  /\ flushed = {}
  /\ dropped = {}
  /\ page = NoPage

InitSpecRetry ==
  /\ hostname = <<"localhost">>
  /\ now = 0
  /\ cache = [h \in Hosts |-> NoEntry]
  /\ resolving = {}
  /\ calls = [c \in CallIds |-> IdleCall]
  /\ timedOut = FALSE
  /\ authLoading = TRUE
  /\ user = FALSE
  /\ userRole = Null
  /\ pathname = <<>>
  /\ visited = {}
  /\ clientCall = NoCall
  /\ activePlans = {}
  /\ authUsers = {}
  /\ tenants = {}
  /\ profiles = [u \in UserIds |-> NewProfile]
  /\ reqs = [r \in ReqIds |-> IdleReq]
  /\ fetches = [f \in FetchIds |-> IdleFetch]
  /\ navCall = NoNavCall
  /\ router = NoRouter
  /\ hookImpl = "part_011"
  /\ hasGetInstance = TRUE
  /\ globals = NewGlobals
  /\ inits = [k \in ConsumerIds |-> NoInit]
  /\ consumers = [k \in ConsumerIds |-> NoConsumer]
  /\ logs = <<>>
  /\ logged = 0
  /\ batches = [f \in FlushIds |-> <<>>]
  /\ flushed = {}
  /\ dropped = {}
  /\ page = NoPage

InitSpecNav ==
  /\ hostname \in NavHosts
  /\ now = 0
  /\ cache = [h \in Hosts |-> NoEntry]
  /\ resolving = {}
  /\ calls = [c \in CallIds |-> IdleCall]
  /\ timedOut = FALSE
  /\ authLoading = TRUE
  /\ user = FALSE
  /\ userRole = Null
  /\ pathname = <<>>
  /\ visited = {}
  /\ clientCall = NoCall
  /\ activePlans = {}
  /\ authUsers = {}
  /\ tenants = {}
  /\ profiles = [u \in UserIds |-> NewProfile]
  /\ reqs = [r \in ReqIds |-> IdleReq]
  /\ fetches = [f \in FetchIds |-> IdleFetch]
  /\ navCall = NoNavCall
  /\ router = NoRouter
  /\ hookImpl = "part_011"
  /\ hasGetInstance = TRUE
  /\ globals = NewGlobals
  /\ inits = [k \in ConsumerIds |-> NoInit]
  /\ consumers = [k \in ConsumerIds |-> NoConsumer]
  /\ logs = <<>>
  /\ logged = 0
  /\ batches = [f \in FlushIds |-> <<>>]
  /\ flushed = {}
  /\ dropped = {}
  /\ page = NoPage

InitSpecRouter ==
  /\ hostname \in NavHosts
  /\ now = 0
  /\ cache = [h \in Hosts |-> NoEntry]
  /\ resolving = {}
  /\ calls = [c \in CallIds |-> IdleCall]
  /\ timedOut = FALSE
  /\ authLoading = TRUE
  /\ user = FALSE
  /\ userRole = Null
  /\ pathname = <<>>
  /\ visited = {}
  /\ clientCall = NoCall
  /\ activePlans = {}
  /\ authUsers = {}
  /\ tenants = {}
  /\ profiles = [u \in UserIds |-> NewProfile]
  /\ reqs = [r \in ReqIds |-> IdleReq]
  /\ fetches = [f \in FetchIds |-> IdleFetch]
  /\ navCall = NoNavCall
  /\ router \in {NewRouter(v) : v \in RouterVariants}
  /\ hookImpl = "part_011"
  /\ hasGetInstance = TRUE
  /\ globals = NewGlobals
  /\ inits = [k \in ConsumerIds |-> NoInit]
  /\ consumers = [k \in ConsumerIds |-> NoConsumer]
  /\ logs = <<>>
  /\ logged = 0
  /\ batches = [f \in FlushIds |-> <<>>]
  /\ flushed = {}
  /\ dropped = {}
  /\ page = NoPage

InitSpecHook ==
  /\ hostname \in Hosts
  /\ now = 0
  /\ cache = [h \in Hosts |-> NoEntry]
  /\ resolving = {}
  /\ calls = [c \in CallIds |-> IdleCall]
  /\ timedOut = FALSE
  /\ authLoading = TRUE
  /\ user = FALSE
  /\ userRole = Null
  /\ pathname = <<>>
  /\ visited = {}
  /\ clientCall = NoCall
  /\ activePlans = {}
  /\ authUsers = {}
  /\ tenants = {}
  /\ profiles = [u \in UserIds |-> NewProfile]
  /\ reqs = [r \in ReqIds |-> IdleReq]
  /\ fetches = [f \in FetchIds |-> IdleFetch]
  /\ navCall = NoNavCall
  /\ router = NoRouter
  /\ hookImpl \in HookImpls
  /\ hasGetInstance \in (IF hookImpl = "part_011" THEN {TRUE} ELSE BOOLEAN)
  /\ globals = NewGlobals
  /\ inits = [k \in ConsumerIds |-> NoInit]
  /\ consumers = [k \in ConsumerIds |-> NoConsumer]
  /\ logs = <<>>
  /\ logged = 0
  /\ batches = [f \in FlushIds |-> <<>>]
  /\ flushed = {}
  /\ dropped = {}
  /\ page = NoPage

InitSpecLog ==
  /\ hostname = <<"localhost">>
  /\ now = 0
  /\ cache = [h \in Hosts |-> NoEntry]
  /\ resolving = {}
  /\ calls = [c \in CallIds |-> IdleCall]
  /\ timedOut = FALSE
  /\ authLoading = TRUE
  /\ user = FALSE
  /\ userRole = Null
  /\ pathname = <<>>
  /\ visited = {}
  /\ clientCall = NoCall
  /\ activePlans = {}
  /\ authUsers = {}
  /\ tenants = {}
  /\ profiles = [u \in UserIds |-> NewProfile]
  /\ reqs = [r \in ReqIds |-> IdleReq]
  /\ fetches = [f \in FetchIds |-> IdleFetch]
  /\ navCall = NoNavCall
  /\ router = NoRouter
  /\ hookImpl = "part_011"
  /\ hasGetInstance = TRUE
  /\ globals = NewGlobals
  /\ inits = [k \in ConsumerIds |-> NoInit]
  /\ consumers = [k \in ConsumerIds |-> NoConsumer]
  /\ logs = <<>>
  /\ logged = 0
  /\ batches = [f \in FlushIds |-> <<>>]
  /\ flushed = {}
  /\ dropped = {}
  /\ page = NoPage

InitSpecPage ==
  /\ hostname = <<"localhost">>
  /\ now = 0
  /\ cache = [h \in Hosts |-> NoEntry]
  /\ resolving = {}
  /\ calls = [c \in CallIds |-> IdleCall]
  /\ timedOut = FALSE
  /\ authLoading = TRUE
  /\ user = FALSE
  /\ userRole = Null
  /\ pathname = <<>>
  /\ visited = {}
  /\ clientCall = NoCall
  /\ activePlans = {}
  /\ authUsers = {}
  /\ tenants = {}
  /\ profiles = [u \in UserIds |-> NewProfile]
  /\ reqs = [r \in ReqIds |-> IdleReq]
  /\ fetches = [f \in FetchIds |-> IdleFetch]
  /\ navCall = NoNavCall
  /\ router = NoRouter
  /\ hookImpl = "part_011"
  /\ hasGetInstance = TRUE
  /\ globals = NewGlobals
  /\ inits = [k \in ConsumerIds |-> NoInit]
  /\ consumers = [k \in ConsumerIds |-> NoConsumer]
  /\ logs = <<>>
  /\ logged = 0
  /\ batches = [f \in FlushIds |-> <<>>]
  /\ flushed = {}
  /\ dropped = {}
  /\ page \in {[NoPage EXCEPT !.loading = l] : l \in BOOLEAN}

SpecDomain == InitSpecDomain /\ [][NextDomain]_vars

SpecRoute == InitSpecRoute /\ [][NextRoute]_vars

SpecClient == InitSpecClient /\ [][NextClient]_vars

SpecEdge == InitSpecEdge /\ [][NextEdge]_vars

SpecRetry == InitSpecRetry /\ [][NextRetry]_vars

SpecNav == InitSpecNav /\ [][NextNav]_vars

SpecRouter == InitSpecRouter /\ [][NextRouter]_vars

SpecHook == InitSpecHook /\ [][NextHook]_vars

SpecLog == InitSpecLog /\ [][NextLog]_vars

SpecPage == InitSpecPage /\ [][NextPage]_vars

\* every awaited call of the hook settles: getCurrentDomainConfig (its wait
\* is bounded and its lookup answers or fails) and setupTenantContext
SpecHookFair ==
  /\ SpecHook
  /\ \A k \in ConsumerIds :
       /\ WF_vars(\E out \in ConfigOutcomes(hostname) : InitConfigReturns(k, out))
       /\ WF_vars(InitSetupReturns(k))
       /\ WF_vars(\E out \in ConfigOutcomes(hostname) : RefreshReturns(k, out))

(***************************************************************************)
(* Properties of part A                                                    *)
(***************************************************************************)

\* the get_tenant_by_domain lookups of getCurrentDomainConfig in flight for h
LookupsInFlight(h) ==
  {c \in CallIds : calls[c].kind = "config" /\ calls[c].pc = "rpc" /\ calls[c].host = h}

\* C1 (as stated): for any hostname and any interleaving of concurrent
\* getCurrentDomainConfig calls, at most one get_tenant_by_domain lookup for
\* that hostname is in flight at any moment.
C1_AtMostOneLookupInFlight ==
  \A h \in Hosts : Cardinality(LookupsInFlight(h)) <= 1

\* C1 (amended): at most one lookup per hostname is in flight as long as no
\* waiting call has used up its 50 polling rounds while the resolution it
\* waited for was still in progress.
C1_AtMostOneLookupUntilTimeout ==
  ~timedOut => \A h \in Hosts : Cardinality(LookupsInFlight(h)) <= 1

\* C1 witness: a second call has polled while the first call's lookup is in
\* flight, and nobody has timed out.
C1_Witness ==
  /\ ~timedOut
  /\ \E a, b \in CallIds :
        /\ calls[a].kind = "config" /\ calls[a].pc = "rpc"
        /\ calls[b].kind = "config" /\ calls[b].pc = "wait"
        /\ calls[b].host = calls[a].host
        /\ calls[b].attempts = MaxWaitAttempts - 1

\* a step in which call c evaluates a cache check: the first check of either
\* operation, or the check after the wait loop has ended
CacheCheckStep(c) ==
  \/ calls[c].pc = "idle" /\ calls'[c].pc # "idle"
  \/ calls[c].pc = "wait" /\ calls'[c].pc # "wait"

\* C2: at every cache check the call answers with the cached tenant id, and
\* without a lookup, exactly when an entry for the hostname exists and is
\* younger than 5 minutes; otherwise the entry is not returned and the call
\* goes on to the lookup (getCurrentDomainConfig first waits for a resolution
\* in progress, and answers a development or main hostname from parseDomain).
C2_CacheIsTimeBased ==
  [][\A c \in CallIds :
       CacheCheckStep(c) =>
         LET h == calls'[c].host
             young == cache[h] # NoEntry /\ now - cache[h].timestamp < 300000
             answered == calls'[c].pc = "done" /\ calls'[c].via = "cache"
         IN /\ answered <=> young
            /\ answered => calls'[c].tenantId = cache[h].tenantId
            /\ ~young =>
                 \/ calls'[c].pc = "rpc"
                 \/ calls'[c].kind = "config" /\ calls'[c].pc = "wait"
                 \/ /\ calls'[c].kind = "config" /\ calls'[c].via = "static"
                    /\ IsDevOrMainDomain(h) /\ calls'[c].tenantId = Null
    ]_vars

\* C2 witness: a call was answered from an entry cached some time ago
C2_Witness ==
  \E c \in CallIds :
    /\ calls[c].pc = "done" /\ calls[c].via = "cache"
    /\ cache[calls[c].host] # NoEntry
    /\ cache[calls[c].host].tenantId = calls[c].tenantId
    /\ now - cache[calls[c].host].timestamp = 2 * TickMs

(***************************************************************************)
(* Properties of part B                                                    *)
(***************************************************************************)

\* C3: a route wrapped in ProtectedRoute with allowedRoles renders its
\* children only for a signed-in user whose role is one of allowedRoles (the
\* /superadmin routes only for role superadmin).
C3_ChildrenOnlyForAllowedRoles ==
  (Screen.guarded /\ Screen.hasAllowed /\ Screen.children)
     => (user /\ userRole \in Screen.allowed)

\* C4: ProtectedRoute never renders its children while authentication is
\* loading or when no user is signed in: loading shows the spinner only, no
\* user redirects to /auth.
C4_NoChildrenWithoutAuth ==
  Screen.guarded =>
    /\ authLoading => (Screen.kind = "spinner" /\ ~Screen.children)
    /\ (~authLoading /\ ~user) =>
          (Screen.kind = "redirect" /\ Screen.to = <<"auth">> /\ ~Screen.children)
    /\ Screen.children => (~authLoading /\ user)

\* C4 witness: a session is already known on a protected route while auth is
\* still loading, and the spinner is shown
C4_Witness ==
  /\ authLoading /\ user
  /\ pathname = <<"sales">>
  /\ Screen.guarded /\ Screen.kind = "spinner"

\* C5: redirects never loop: a chain of redirects never comes back to a
\* pathname it has already left.
C5_RedirectsNeverLoop ==
  pathname \notin visited

(***************************************************************************)
(* Properties of part C                                                    *)
(***************************************************************************)

\* C6: hasRouteAccess(path, role) is false for a path with no route
\* configuration, true for a route that does not require authentication
\* whatever the role, false for an authentication-required route when no role
\* is given, and for an authentication-required route with allowedRoles true
\* exactly when the role is in allowedRoles; so /superadmin paths are
\* accessible only to superadmin.
C6_HasRouteAccess ==
  clientCall.op = "hasRouteAccess" =>
    LET p == clientCall.path
        r == clientCall.role
        configured == p \in PublicPaths \cup SuperAdminRoutePaths \cup AdminRoutePaths
        noRole == r \notin Roles
    IN /\ ~configured => clientCall.result = FALSE
       /\ p \in PublicPaths => clientCall.result = TRUE
       /\ (configured /\ p \notin PublicPaths /\ noRole) => clientCall.result = FALSE
       /\ (p \in SuperAdminRoutePaths /\ ~noRole) =>
             (clientCall.result <=> r = "superadmin")
       /\ (PathStartsWith(p, "superadmin") /\ clientCall.result) => r = "superadmin"

\* C6 witness: an admin was refused a /superadmin route
C6_Witness ==
  /\ clientCall.op = "hasRouteAccess"
  /\ clientCall.path = <<"superadmin", "tenants">>
  /\ clientCall.role = "admin"
  /\ clientCall.result = FALSE

EdgeFlows == {"create-tenant-trial", "unified-auth"}

StagesOf(req) == {req.stages[i] : i \in 1..Len(req.stages)}

\* C8: withRateLimit runs the handler it wraps only when checkRateLimit
\* returned true, i.e. the check_rate_limit rpc returned data = true without
\* an error; when the rpc fails or returns anything else the request is
\* answered 429 RATE_LIMIT_EXCEEDED, the wrapped handler is never entered
\* and nothing is written.
C8_RateLimitFailSafe ==
  \A r \in ReqIds :
    LET req == reqs[r]
    IN /\ "validation" \in StagesOf(req) => req.rl = "true"
       /\ req.rl \in {"error", "false"} =>
            /\ req.resp = "429 RATE_LIMIT_EXCEEDED"
            /\ StagesOf(req) = {"ratelimit"}
            /\ req.wrote = {}

\* one request was blocked because the rpc failed, another one was let
\* through to the wrapped handler
C8_Witness ==
  /\ \E r \in ReqIds : reqs[r].rl = "error" /\ reqs[r].pc = "done"
  /\ \E r \in ReqIds : reqs[r].rl = "true" /\ "handler" \in StagesOf(reqs[r])

\* the stages a request of an edge function has passed when its handler runs
PassedBoth ==
  <<"ratelimit", "ratelimit-ok", "validation", "validation-ok", "handler">>

\* C9: in create-tenant-trial and unified-auth a request writes to
\* auth.users, tenants or profiles only after it passed the rate-limit check
\* and then the validation, in that order; a request answered 429, 400
\* VALIDATION_ERROR or 400 INVALID_JSON has written nothing; an OPTIONS
\* preflight enters neither the rate limiter nor the handler; and the tables
\* hold no row that no request wrote.
C9_WritesOnlyAfterBothChecks ==
  /\ \A r \in ReqIds :
       LET req == reqs[r]
       IN req.flow \in EdgeFlows =>
            /\ req.wrote # {} => req.stages = PassedBoth /\ req.rl = "true"
            /\ req.resp \in {"429 RATE_LIMIT_EXCEEDED", "400 VALIDATION_ERROR",
                             "400 INVALID_JSON"} => req.wrote = {}
            /\ req.method = "OPTIONS" =>
                 req.stages = <<>> /\ req.rl = "none" /\ req.wrote = {}
  /\ authUsers # {} => \E r \in ReqIds : "auth.users" \in reqs[r].wrote
  /\ tenants # {} => \E r \in ReqIds : "tenants" \in reqs[r].wrote
  /\ (\E u \in UserIds : profiles[u] # NewProfile) =>
       \E r \in ReqIds : "profiles" \in reqs[r].wrote

\* an edge function has written a tenant, and a preflight was answered
C9_Witness ==
  /\ \E r \in ReqIds : reqs[r].flow \in EdgeFlows /\ "tenants" \in reqs[r].wrote
  /\ \E r \in ReqIds : reqs[r].method = "OPTIONS" /\ reqs[r].pc = "done"

\* C10: every tenant row has status 'trial' and the billing_plan_id of a
\* highest-priced active plan; a request that has inserted a tenant and has
\* finished has set the creating user's profile; every profile that was
\* changed has role 'admin' and the id of a tenant its user created; and
\* without an active plan there is no tenant.
C10_TrialProvisioning ==
  /\ \A t \in tenants :
       t.status = "trial" /\ t.billing_plan_id \in HighestPlans(activePlans)
  /\ \A r \in ReqIds :
       reqs[r].pc = "done" /\ "tenants" \in reqs[r].wrote =>
         "profiles" \in reqs[r].wrote
  /\ \A u \in UserIds :
       profiles[u] # NewProfile =>
         /\ profiles[u].role = "admin"
         /\ \E t \in tenants : t.id = profiles[u].tenant_id /\ t.created_by = u
  /\ activePlans = {} => tenants = {}

Is4xx(error) == error.hasStatus /\ error.status >= 400 /\ error.status <= 499

\* C12: a query that failed with a status between 400 and 499 is not run
\* again for that failure; a query is run again at most 3 times (4 runs) and
\* a mutation at most once (2 runs).
C12_RetryBounded ==
  \A f \in FetchIds :
    LET q == fetches[f]
    IN /\ q.kind = "query" /\ q.pc = "waiting" => ~Is4xx(q.error)
       /\ q.kind = "query" => q.runs <= 4
       /\ q.kind = "mutation" => q.runs <= 2

\* a query gave up on a 4xx error after having been retried for other
\* errors, and a mutation gave up after its one retry
C12_Witness ==
  /\ \E f \in FetchIds :
       /\ fetches[f].kind = "query" /\ fetches[f].pc = "failed"
       /\ Is4xx(fetches[f].error) /\ fetches[f].runs = 3
  /\ \E f \in FetchIds :
       /\ fetches[f].kind = "mutation" /\ fetches[f].pc = "failed"
       /\ fetches[f].runs = 2

(***************************************************************************)
(* NavigationService (SpecNav)                                             *)
(***************************************************************************)

\* C13: for every state of the tenants table and every host the three
\* implementations of getTenantFromSubdomain return the same result.
C13_ImplementationsAgree ==
  navCall.op = "getTenantFromSubdomain" =>
    navCall.first = navCall.second /\ navCall.second = navCall.third

\* the number of occurrences of a character in a string
CountChar(str, ch) == Cardinality({i \in 1..Len(str) : str[i] = ch})

\* C14: the URL returned by handleOAuthCallback begins with /auth/callback,
\* contains at most one '?', carries type=<value> when a type parameter with
\* a value is present, carries signup=true exactly when signup=true was given and
\* from=invite exactly when from=invite was given, and ends with the hash.
C14_OAuthCallbackUrl ==
  navCall.op = "handleOAuthCallback" =>
    LET url == navCall.url
    IN /\ SubSeq(url, 1, Len(Str_AuthCallback)) = Str_AuthCallback
       /\ CountChar(url, "?") <= 1
       /\ navCall.type.present /\ navCall.type.value # <<>> =>
            Includes(url, Str_Type \o navCall.type.value)
       /\ Includes(url, Str_SignupTrue) <=>
            (navCall.signup.present /\ navCall.signup.value = <<"t", "r", "u", "e">>)
       /\ Includes(url, Str_FromInvite) <=>
            (navCall.from.present /\ navCall.from.value = <<"i", "n", "v", "i", "t", "e">>)
       /\ SubSeq(url, Len(url) - Len(navCall.hash) + 1, Len(url)) = navCall.hash

\* C15: for every user role, the path returned by getDefaultRedirectUrl(role)
\* is a path for which hasRouteAccess(path, role) returns true
C15_DefaultRedirectAccessible ==
  navCall.op = "getDefaultRedirectUrl" => navCall.access

\* C16: a signup request with isGoogleUser set and no password, and an
\* otherwise valid email, full name and business name, is not rejected by
\* AuthService.signup's input validation (it goes on to the user lookup)
C16_GoogleSignupPassesValidation ==
  [][\A r \in ReqIds : \A data \in SignupInputs :
       ( /\ SignupCalled(r, data)
         /\ data.isGoogleUser /\ data.password = <<>>
         /\ validateEmail(data.email)
         /\ Len(Trim(data.fullName)) >= 2
         /\ Len(Trim(data.businessName)) >= 2 )
       => reqs'[r].pc = "listUsers"]_vars

(***************************************************************************)
(* UnifiedRouter (SpecRouter)                                              *)
(***************************************************************************)

\* C17: once validateSubdomainAccess has reported the subdomain as invalid,
\* the router (in each variant) shows the Workspace Not Found screen and not
\* the application's routes
C17_InvalidSubdomainShowsError ==
  router.last = "invalid" => RouterScreen(router) = "Workspace Not Found"

(***************************************************************************)
(* DomainManager: the wait loop (SpecDomain)                               *)
(***************************************************************************)

\* C18: a getCurrentDomainConfig call that waits for a resolution in progress
\* has completed fewer than 50 polling rounds while it waits; every round
\* either counts one more attempt or ends the wait, the 50th ends it whether
\* or not the resolution in progress has completed; and the round that ends
\* the wait answers from the cache or starts the call's own lookup
C18_WaitIsBounded ==
  /\ [](\A c \in CallIds : calls[c].pc = "wait" => calls[c].attempts < 50)
  /\ [][\A c \in CallIds :
          calls[c].pc = "wait" /\ calls'[c] # calls[c] =>
            \/ /\ calls'[c].pc = "wait"
               /\ calls'[c].attempts = calls[c].attempts + 1
               /\ calls'[c].attempts < 50
            \/ calls'[c].pc = "done" /\ calls'[c].via = "cache"
            \/ calls'[c].pc = "rpc" /\ calls'[c].host \in resolving']_vars

\* C18 witness: a call has used up its 50 rounds while the resolution it
\* waited for was still in progress, and has gone on to its own lookup
C18_Witness ==
  /\ timedOut
  /\ \E a, b \in CallIds :
        /\ a # b
        /\ calls[a].kind = "config" /\ calls[a].pc = "rpc"
        /\ calls[b].kind = "config" /\ calls[b].pc = "rpc"
        /\ calls[a].host = calls[b].host

(***************************************************************************)
(* useDomainContext (SpecHook, SpecHookFair)                               *)
(***************************************************************************)

\* a consumer that has a config and is not loading
HasLoaded(k) ==
  /\ consumers[k].mounted
  /\ ~consumers[k].loading
  /\ consumers[k].domainConfig # NullConfig

\* every mounted consumer that has not loaded yet eventually has loading
\* false and a non-null domainConfig
EveryConsumerLoads ==
  \A k \in ConsumerIds :
    (consumers[k].mounted /\ ~consumers[k].loadedOnce) ~> HasLoaded(k)

\* C19 (as stated): for every consumer, loading eventually becomes false and
\* domainConfig non-null, and a consumer whose tenant resolution failed has
\* the fallback config (tenantId null, isSubdomain false, isCustomDomain false)
C19_LoadsWithFallbackOnFailure ==
  /\ EveryConsumerLoads
  /\ [](\A k \in ConsumerIds :
          HasLoaded(k) /\ consumers[k].how \in {"error", "throw"} =>
            consumers[k].domainConfig = FallbackConfig(hostname))

\* C19 (amended): for every consumer, loading eventually becomes false and
\* domainConfig non-null; after a failed lookup, or one that found no tenant,
\* the config is the parsed hostname with tenantId null (isSubdomain and
\* isCustomDomain as parsed), and the fallback config is used when the call
\* itself rejects
C19_LoadsWithParsedHostOnFailure ==
  /\ EveryConsumerLoads
  /\ [](\A k \in ConsumerIds :
          HasLoaded(k) =>
            /\ consumers[k].how \in {"error", "notFound", "static"} =>
                 consumers[k].domainConfig = parseDomain(hostname)
            /\ consumers[k].how = "throw" =>
                 consumers[k].domainConfig = FallbackConfig(hostname)
            /\ consumers[k].how = "found" =>
                 /\ consumers[k].domainConfig.tenantId # Null
                 /\ consumers[k].domainConfig.isSubdomain = parseDomain(hostname).isSubdomain)

\* C19 witness: a consumer on a tenant subdomain has loaded after a failed
\* lookup and its config is not the fallback
C19_Witness ==
  \E k \in ConsumerIds :
    /\ HasLoaded(k)
    /\ consumers[k].how = "error"
    /\ consumers[k].domainConfig.isSubdomain
    /\ consumers[k].domainConfig.tenantId = Null

\* the getCurrentDomainConfig calls started by the hook that have not returned
InitsInFlight == {k \in ConsumerIds : inits[k].pc = "config"}
RefreshesInFlight == {k \in ConsumerIds : consumers[k].refresh = "config"}

\* C20: among the consumers of the global-state useDomainContext at most one
\* domain resolution started by the hook (initial effect or refreshConfig) is
\* in flight at any time, and a consumer that mounts while one is in flight
\* starts none
C20_OneSharedResolution ==
  /\ [](hookImpl = "useCurrencySettings.ts" =>
          Cardinality(InitsInFlight) + Cardinality(RefreshesInFlight) <= 1)
  /\ [][\A k \in ConsumerIds :
          /\ hookImpl = "useCurrencySettings.ts"
          /\ ~consumers[k].mounted /\ consumers'[k].mounted
          /\ InitsInFlight \cup RefreshesInFlight # {}
          => inits'[k].pc # "config"]_vars

(***************************************************************************)
(* DomainManager: what the cache holds (SpecDomain)                        *)
(***************************************************************************)

\* C24: every cache entry holds a tenant id, never null; a lookup that fails
\* or finds no tenant leaves the cache as it was; and a call for a hostname
\* without an entry is not answered from the cache
C24_CacheHoldsOnlyTenants ==
  /\ [](\A h \in Hosts : cache[h] # NoEntry => cache[h].tenantId \in TenantIds)
  /\ [][\A c \in CallIds :
          calls[c].pc = "rpc" /\ calls'[c].pc = "done" /\ calls'[c].tenantId = Null
            => cache' = cache]_vars
  /\ [][\A c \in CallIds :
          calls[c].pc = "idle" /\ calls'[c].pc # "idle" /\ cache[calls'[c].host] = NoEntry
            => calls'[c].via # "cache"]_vars

\* C24 witness: a lookup has found no tenant, the hostname has no cache entry
\* and another call is looking the same hostname up
C24_Witness ==
  \E a, b \in CallIds :
    /\ calls[a].pc = "done" /\ calls[a].via = "rpc" /\ calls[a].tenantId = Null
    /\ calls[b].pc = "rpc" /\ calls[b].host = calls[a].host
    /\ cache[calls[a].host] = NoEntry

(***************************************************************************)
(* Provisioning: what a failed request leaves behind (SpecEdge)            *)
(***************************************************************************)

\* C23: whenever unified-auth, create-tenant-trial or AuthService.signup
\* reports failure, none of the records the request created (auth user,
\* tenant row, profile update) remains in the database (no step of these
\* flows deletes a row, so what a request wrote is what remains of it)
C23_FailureLeavesNothing ==
  \A r \in ReqIds :
    /\ reqs[r].pc = "done"
    /\ reqs[r].resp # SuccessResponse(reqs[r].flow)
    => reqs[r].wrote = {}

(***************************************************************************)
(* LoggingService (SpecLog)                                                *)
(***************************************************************************)

\* C21: when the batch insert of a flushLogs call fails (nothing of the batch
\* was stored), the batch is put back at the front of the buffer in its
\* original order; and no entry is lost to a flush: every entry logged is in
\* the buffer, in a batch in flight or stored, unless log() cut it off at
\* maxLogs
C21_FailedFlushPutsBack ==
  /\ [][\A f \in FlushIds :
          /\ batches[f] # <<>> /\ batches'[f] = <<>>
          /\ Elements(batches[f]) \cap flushed' = {}
          => logs' = batches[f] \o logs]_vars
  /\ [](\A e \in 1..logged :
          \/ e \in Elements(logs)
          \/ \E f \in FlushIds : e \in Elements(batches[f])
          \/ e \in flushed
          \/ e \in dropped)

(***************************************************************************)
(* Index and LandingPage (SpecPage)                                        *)
(***************************************************************************)

\* C22: while authentication is loading, a render pass of the Index page
\* completes and shows the landing page, and the pass does not nest Index in
\* Index without bound (the nesting stays below the depth the model follows)
C22_IndexRenderCompletes ==
  /\ page.nested < MaxDepth
  /\ page.pc = "done" /\ page.loading => page.shown = "landing page"

====
